---- MODULE Spec2Model ----
(***************************************************************************)
(* A model of the counseling-chat backend (sephinote7/testchatpy):         *)
(*   - the message document store: chat_msg_db.py, ai_db.py, db_pool.py    *)
(*   - the bounded summarizer: app.py, ai_chat.py                          *)
(*   - the sentence-boundary truncation: app.py                            *)
(*                                                                         *)
(* Strings are sequences of one-character strings, so that len(), strip(), *)
(* slicing and rfind() are computed on the characters as Python does.      *)
(*                                                                         *)
(* Storage: every `with get_conn()` block is one transaction (db_pool.py   *)
(* commits when the block ends).  PostgreSQL runs it READ COMMITTED: a     *)
(* SELECT sees what is committed when it executes, an UPDATE or INSERT     *)
(* becomes visible to the others at the commit.  A transaction's reads and *)
(* its writes are therefore separate steps; the writes of one transaction  *)
(* and its commit are one step.                                            *)
(***************************************************************************)
EXTENDS Integers, Sequences, FiniteSets, TLC

VARIABLES
    chat_msg,       \* table chat_msg: the rows in created_at order
    ai_msg,         \* table ai_msg: cnsl_id -> row or NoRow (unique key)
    cnsl_todo_yn,   \* cnsl_reg.cnsl_todo_yn per cnsl_id
    chat_unique,    \* whether the database has a unique index on chat_msg.cnsl_id
    cnsl_reg,       \* table cnsl_reg: the cnsl_ids registered
    wk,             \* per worker (request thread): position and locals
    clock,          \* time.time(), counted in reads
    started,        \* number of operations started
    calls,          \* history: per table and cnsl_id, the append calls in call order
    sequential,     \* history: per table and cnsl_id, only non-overlapping appends so far
    wcount          \* history: per table and cnsl_id, number of committed writes

VARIABLES
    s_pc,           \* the summarize request: its position
    s_ep,           \* the endpoint serving it
    s_key,          \* whether OPENAI_API_KEY is set
    s_text,         \* the transcript the request summarizes
    s_cur,          \* _summarize_with_openai_300: the text the next prompt carries
    s_calls,        \* number of calls of the completion capability
    s_results,      \* history: what each call of _summarize_with_openai returned
    s_compl,        \* history: what each completion call did
    s_resp          \* the response to the caller

VARIABLES
    t_pc,           \* the truncation under test: "in", "out" or "again"
    t_text,         \* its text argument
    t_limit,        \* its limit argument
    t_out,          \* its result
    t_again         \* the result of truncating the result

VARIABLES
    _connection_pool,   \* db_pool._connection_pool: 0 for None, else the
                        \* number of the pool instance it refers to
    pools,          \* number of ThreadedConnectionPool instances constructed
    p_used,         \* per pool instance: connections checked out of it
    p_others,       \* of these, the ones held by requests not followed here
    uw,             \* per followed thread: its unit of work inside get_conn
    uw_started      \* number of units of work started

VARIABLES
    a_pc,           \* the summarize_audio request followed line by line
    a_in,           \* its form fields and what the capabilities do with them
    a_out           \* its locals and its response

storeVars == <<chat_msg, ai_msg, cnsl_todo_yn, chat_unique, cnsl_reg, wk, clock,
               started, calls, sequential, wcount>>

sumVars == <<s_pc, s_ep, s_key, s_text, s_cur, s_calls, s_results, s_compl,
             s_resp>>

truncVars == <<t_pc, t_text, t_limit, t_out, t_again>>

poolVars == <<_connection_pool, pools, p_used, p_others, uw, uw_started>>

audioVars == <<a_pc, a_in, a_out>>

vars == <<storeVars, sumVars, truncVars, poolVars, audioVars>>

----------------------------------------------------------------------------
(* Bounds *)

\* The number of operations (requests served) of a run.
MaxOps == 3

\* The request threads, and the cnsl_ids the tables range over.
Workers == {1, 2}
CnslIds == {1, 2}
Tables == {"chat", "ai"}

----------------------------------------------------------------------------
(* Values *)

NoneVal == [kind |-> "none"]
NoRow == [kind |-> "norow"]

\* Python's None where a string may stand: no string has this element.
NoneStr == <<"<None>">>

Min(a, b) == IF a <= b THEN a ELSE b
Max(a, b) == IF a >= b THEN a ELSE b

\* The text of the n-th message sent: distinct calls carry distinct texts.
MsgText(n) == <<"m", ToString(n)>>

\* chat_msg_db.py:77-82, ai_db.py:79-86: the entry an append builds.
Entry(speaker, text, ts) ==
    [speaker |-> speaker, text |-> text, type |-> "chat", timestamp |-> ts]

\* The rows of chat_msg for one cnsl_id, in created_at order.
RowsOf(tbl, c) == SelectSeq(tbl, LAMBDA r : r.cnsl_id = c)

\* SELECT ... FROM chat_msg WHERE cnsl_id = %s ORDER BY created_at ASC LIMIT 1
FirstRow(tbl, c) ==
    LET rs == RowsOf(tbl, c) IN IF rs = <<>> THEN NoRow ELSE rs[1]

\* UPDATE chat_msg SET ... WHERE cnsl_id = %s: every row of the cnsl_id.
UpdateRows(tbl, c, Upd(_)) ==
    [i \in 1..Len(tbl) |-> IF tbl[i].cnsl_id = c THEN Upd(tbl[i]) ELSE tbl[i]]

\* INSERT INTO chat_msg ...: chat_id is serial, created_at the insertion time.
InsertRow(tbl, c, role, content, summary) ==
    Append(tbl, [kind |-> "row", chat_id |-> Len(tbl) + 1, cnsl_id |-> c,
                 role |-> role, content |-> content, summary |-> summary])

\* The document get returns for a conversation: its entries, <<>> when absent.
ChatEntries(c) ==
    LET r == FirstRow(chat_msg, c) IN IF r = NoRow THEN <<>> ELSE r.content

AiEntries(c) == IF ai_msg[c] = NoRow THEN <<>> ELSE ai_msg[c].content

Entries(t, c) == IF t = "chat" THEN ChatEntries(c) ELSE AiEntries(c)

----------------------------------------------------------------------------
(* Workers *)

IdleWk ==
    [pc |-> "idle", op |-> "none", table |-> "none", cnsl |-> 0,
     speaker |-> "", text |-> <<>>, summary_val |-> NoneStr, role_val |-> "",
     content |-> <<>>, entry |-> NoneVal, existing |-> NoRow, ret |-> NoneVal,
     uow |-> 0, commits |-> 0, rd |-> 0, wr |-> 0, err |-> "none"]

Free(w) == wk[w].pc \in {"idle", "done", "failed"}

\* A request is served by the first free thread (the threads are alike).
CanBegin(w) == Free(w) /\ \A v \in Workers : v < w => ~Free(v)

InFlight(w) == ~Free(w)

\* Another worker is inside an operation on the same document.
Overlaps(w, t, c) ==
    \E v \in Workers \ {w} : InFlight(v) /\ wk[v].table = t /\ wk[v].cnsl = c

IsAppend(op) == op \in {"append_chat_content", "append_message"}

\* An empty database holding the registered conversations `reg`, each
\* waiting for a reply.
StoreInit(reg) ==
    /\ cnsl_reg = reg
    /\ chat_msg = <<>>
    /\ cnsl_todo_yn = [c \in CnslIds |-> "Y"]
    /\ chat_unique \in BOOLEAN
    /\ wk = [w \in Workers |-> IdleWk]
    /\ clock = 0
    /\ started = 0
    /\ calls = [t \in Tables |-> [c \in CnslIds |-> <<>>]]
    /\ sequential = [t \in Tables |-> [c \in CnslIds |-> TRUE]]
    /\ wcount = [t \in Tables |-> [c \in CnslIds |-> 0]]

\* No summarize request and no truncation is part of the run.
NoRequest ==
    /\ s_pc = "off" /\ s_ep = "none" /\ s_key = TRUE
    /\ s_text = <<>> /\ s_cur = <<>> /\ s_calls = 0
    /\ s_results = <<>> /\ s_compl = <<>>
    /\ s_resp = [status |-> 0, summary |-> <<>>, cnsl_content |-> <<>>,
                 detail |-> ""]

NoTruncation ==
    /\ t_pc = "off" /\ t_text = <<>> /\ t_limit = 0 /\ t_out = <<>>
    /\ t_again = <<>>

\* get_conn is not followed step by step: its units of work are the
\* transactions of the store.
NoUnits ==
    /\ _connection_pool = 0 /\ pools = 0 /\ p_used = <<>> /\ p_others = <<>>
    /\ uw = <<>> /\ uw_started = 0

\* No summarize_audio request is followed line by line.
NoAudio == a_pc = "off" /\ a_in = <<>> /\ a_out = <<>>

\* A step of the store leaves the summarize request alone.
StoreOnly == UNCHANGED <<sumVars, truncVars, poolVars, audioVars>>

\* The bookkeeping of a call's start.
NoteCall(w, t, c, isAppend, speaker, text) ==
    /\ started' = started + 1
    /\ calls' = IF isAppend
                THEN [calls EXCEPT ![t][c] =
                          Append(@, [speaker |-> speaker, text |-> text])]
                ELSE calls
    /\ sequential' = [sequential EXCEPT ![t][c] =
                          @ /\ isAppend /\ ~Overlaps(w, t, c)]

----------------------------------------------------------------------------
(* Python string operations, on sequences of characters *)

\* str.strip() removes leading and trailing whitespace characters.
WS == {" ", "\n", "\t", "\r"}

\* s[:n]
Slice(s, n) == SubSeq(s, 1, Min(n, Len(s)))

\* s.lstrip()
RECURSIVE LStrip(_)
LStrip(s) ==
    IF s = <<>> THEN s
    ELSE IF s[1] \in WS THEN LStrip(Tail(s))
    ELSE s

\* s.rstrip()
RECURSIVE RStrip(_)
RStrip(s) ==
    IF s = <<>> THEN s
    ELSE IF s[Len(s)] \in WS THEN RStrip(SubSeq(s, 1, Len(s) - 1))
    ELSE s

\* s.strip()
Strip(s) == LStrip(RStrip(s))

\* n characters of running text.
Pad(n) == [i \in 1..n |-> "a"]

\* (x or ""): None becomes the empty string.
StrOr(x) == IF x = NoneStr THEN <<>> ELSE x

\* Python truthiness of an optional string.
Truthy(x) == x # NoneStr /\ x # <<>>

----------------------------------------------------------------------------
(* The summary column *)

\* The summary column holding plain text (append_chat_content, update_summary).
TextSummary(s) == IF s = NoneStr THEN NoneVal ELSE [kind |-> "text", text |-> s]

\* chat_msg_db.py:198: the stored summary is cut to this many characters.
SUMMARY_MAX == 300

\* chat_msg_db.py:198-199: the JSON payload upsert_chat_msg_summary stores.
SummaryPayload(summary, summary_line) ==
    [kind |-> "json",
     summary |-> Slice(StrOr(summary), SUMMARY_MAX),
     summary_line |-> Strip(StrOr(summary_line))]

----------------------------------------------------------------------------
(* append_chat_content: chat_msg_db.py:60-146 *)

\* cnsl_chat.py:111-120: the (speaker, request_role, summary_val) the
\* endpoint passes for a message of the given text.
AccInputs(text) ==
    { [speaker |-> "user", role |-> "user", summary_val |-> NoneStr],
      [speaker |-> "cnsler", role |-> "counselor", summary_val |-> NoneStr],
      [speaker |-> "user", role |-> "summary", summary_val |-> text] }

\* Lines 74-86: build the entry (reads the time), enter get_conn.
acc_Begin(w) ==
    /\ StoreOnly
    /\ CanBegin(w)
    /\ started < MaxOps
    /\ \E c \in cnsl_reg : \E inp \in AccInputs(MsgText(started + 1)) :
         LET text == MsgText(started + 1) IN
         /\ wk' = [wk EXCEPT ![w] =
                [IdleWk EXCEPT !.pc = "acc_select",
                               !.op = "append_chat_content",
                               !.table = "chat", !.cnsl = c,
                               !.speaker = inp.speaker, !.text = text,
                               !.summary_val = inp.summary_val,
                               !.role_val = inp.role,
                               !.entry = Entry(inp.speaker, text, clock + 1),
                               !.uow = 1]]
         /\ NoteCall(w, "chat", c, TRUE, inp.speaker, text)
    /\ clock' = clock + 1
    /\ UNCHANGED <<chat_msg, ai_msg, cnsl_todo_yn, chat_unique, cnsl_reg, wcount>>

\* Lines 88-94: SELECT the first row of the cnsl_id.
acc_Select(w) ==
    /\ StoreOnly
    /\ wk[w].pc = "acc_select"
    /\ wk' = [wk EXCEPT ![w].pc = "acc_write",
                        ![w].existing = FirstRow(chat_msg, wk[w].cnsl),
                        ![w].rd = wcount["chat"][wk[w].cnsl]]
    /\ UNCHANGED <<chat_msg, ai_msg, cnsl_todo_yn, chat_unique, cnsl_reg, clock, started,
                   calls, sequential, wcount>>

\* The UPDATE with the new entry put before the entries read.
acc_Updated_prepend(existing, entry, summary_val, role_val, r) ==
    [r EXCEPT !.content = <<entry>> \o existing.content,
              !.summary = IF Truthy(summary_val) THEN TextSummary(summary_val)
                          ELSE @,
              !.role = IF existing.role \in {"", "None"} /\ role_val # ""
                       THEN role_val ELSE @]

\* An UPDATE that always sets the summary column, to NULL without a
\* summary.
acc_Updated_set_summary(existing, entry, summary_val, role_val, r) ==
    [r EXCEPT !.content = Append(existing.content, entry),
              !.summary = TextSummary(IF Truthy(summary_val) THEN summary_val
                                      ELSE NoneStr),
              !.role = IF existing.role \in {"", "None"} /\ role_val # ""
                       THEN role_val ELSE @]

\* Lines 97-113: the row the UPDATE leaves, from the row read.
acc_Updated(existing, entry, summary_val, role_val, r) ==
    [r EXCEPT !.content = Append(existing.content, entry),
              !.summary = IF Truthy(summary_val) THEN TextSummary(summary_val)
                          ELSE @,
              !.role = IF existing.role \in {"", "None"} /\ role_val # ""
                       THEN role_val ELSE @]

\* An append that leaves the pending-reply flag as it is.
acc_Todo_keep(todo, c, speaker) == todo

\* An append whose UPDATE of cnsl_reg has no WHERE clause.
acc_Todo_all(todo, c, speaker) ==
    IF speaker = "user" THEN [d \in CnslIds |-> "N"] ELSE todo

\* Lines 125-129: the originator's message clears the pending-reply flag.
acc_Todo(todo, c, speaker) ==
    IF speaker = "user" THEN [todo EXCEPT ![c] = "N"] ELSE todo

\* Lines 96-146 and the commit of get_conn: UPDATE the rows of the cnsl_id, or
\* INSERT a new row; a unique violation or an UPDATE that matched no row
\* raises, and get_conn rolls the transaction back.
acc_Write(w) ==
    /\ StoreOnly
    /\ wk[w].pc = "acc_write"
    /\ LET me == wk[w]
           c == me.cnsl
           upd(r) == acc_Updated(me.existing, me.entry, me.summary_val,
                                 me.role_val, r)
           newtbl == IF me.existing # NoRow
                     THEN UpdateRows(chat_msg, c, upd)
                     ELSE InsertRow(chat_msg, c, me.role_val, <<me.entry>>,
                                    TextSummary(me.summary_val))
           raised == IF me.existing # NoRow
                     THEN RowsOf(chat_msg, c) = <<>>
                     ELSE chat_unique /\ RowsOf(chat_msg, c) # <<>>
           row == IF me.existing # NoRow THEN FirstRow(newtbl, c)
                  ELSE newtbl[Len(newtbl)]
       IN  IF raised
           THEN /\ wk' = [wk EXCEPT ![w].pc = "failed"]
                /\ UNCHANGED <<chat_msg, cnsl_todo_yn, wcount>>
           ELSE /\ chat_msg' = newtbl
                /\ cnsl_todo_yn' = acc_Todo(cnsl_todo_yn, c, me.speaker)
                /\ wcount' = [wcount EXCEPT !["chat"][c] = @ + 1]
                /\ wk' = [wk EXCEPT ![w].pc = "done", ![w].ret = row,
                                    ![w].commits = @ + 1,
                                    ![w].wr = wcount["chat"][c] + 1]
    /\ UNCHANGED <<ai_msg, chat_unique, cnsl_reg, clock, started, calls, sequential>>

----------------------------------------------------------------------------
(* append_message: ai_db.py:66-87, over get_bot_msg and upsert_bot_msg *)

\* post_chat (ai_chat.py:110-112) appends as "user" and as "ai".
am_Begin(w) ==
    /\ StoreOnly
    /\ CanBegin(w)
    /\ started < MaxOps
    /\ \E c \in cnsl_reg : \E speaker \in {"user", "ai"} :
         LET text == MsgText(started + 1) IN
         /\ wk' = [wk EXCEPT ![w] =
                [IdleWk EXCEPT !.pc = "am_get", !.op = "append_message",
                               !.table = "ai", !.cnsl = c,
                               !.speaker = speaker, !.text = text]]
         /\ NoteCall(w, "ai", c, TRUE, speaker, text)
    /\ UNCHANGED <<chat_msg, ai_msg, cnsl_todo_yn, chat_unique, cnsl_reg, clock, wcount>>

\* ai_db.py:29-40, get_bot_msg: one get_conn block of its own.
get_bot_msg(c) == ai_msg[c]

\* ai_db.py:67-77: the content list read from the row, [] when there is none.
am_Content(existing) == IF existing = NoRow THEN <<>> ELSE existing.content

\* Line 67 (get_bot_msg, committed when its block ends) and lines 68-86: the
\* entry is built, with the time read, after the read.
am_Get(w) ==
    /\ StoreOnly
    /\ wk[w].pc = "am_get"
    /\ LET me == wk[w]
           existing == get_bot_msg(me.cnsl)
       IN  wk' = [wk EXCEPT ![w].pc = "am_upsert",
                           ![w].existing = existing,
                           ![w].content = Append(am_Content(existing),
                                   Entry(me.speaker, me.text, clock + 1)),
                           ![w].entry = Entry(me.speaker, me.text, clock + 1),
                           ![w].uow = @ + 1, ![w].commits = @ + 1,
                           ![w].rd = wcount["ai"][me.cnsl]]
    /\ clock' = clock + 1
    /\ UNCHANGED <<chat_msg, ai_msg, cnsl_todo_yn, chat_unique, cnsl_reg, started, calls,
                   sequential, wcount>>

\* The upsert merging into the stored list (msg_data || EXCLUDED.msg_data)
\* instead of overwriting it.
upsert_bot_msg_merge(old, c, content_list, summary) ==
    IF old = NoRow
    THEN [kind |-> "row", cnsl_id |-> c, content |-> content_list,
          summary |-> TextSummary(IF Truthy(summary) THEN summary ELSE NoneStr)]
    ELSE [old EXCEPT !.content =
                         @ \o SelectSeq(content_list,
                                  LAMBDA e : \A i \in 1..Len(old.content) :
                                                 old.content[i] # e),
                     !.summary = IF Truthy(summary) THEN TextSummary(summary)
                                 ELSE @]

\* ai_db.py:43-63, upsert_bot_msg: INSERT ... ON CONFLICT (cnsl_id, member_id)
\* DO UPDATE SET msg_data = EXCLUDED.msg_data,
\*               summary = COALESCE(EXCLUDED.summary, ai_msg.summary).
upsert_bot_msg(old, c, content_list, summary) ==
    IF old = NoRow
    THEN [kind |-> "row", cnsl_id |-> c, content |-> content_list,
          summary |-> TextSummary(IF Truthy(summary) THEN summary ELSE NoneStr)]
    ELSE [old EXCEPT !.content = content_list,
                     !.summary = IF Truthy(summary) THEN TextSummary(summary)
                                 ELSE @]

\* Line 87: upsert_bot_msg(cnsl_id, member_id, {"content": content}), one
\* get_conn block of its own.
am_Upsert(w) ==
    /\ StoreOnly
    /\ wk[w].pc = "am_upsert"
    /\ LET me == wk[w]
           c == me.cnsl
           row == upsert_bot_msg(ai_msg[c], c, me.content, NoneStr)
       IN  /\ ai_msg' = [ai_msg EXCEPT ![c] = row]
           /\ wcount' = [wcount EXCEPT !["ai"][c] = @ + 1]
           /\ wk' = [wk EXCEPT ![w].pc = "done", ![w].ret = row,
                               ![w].uow = @ + 1, ![w].commits = @ + 1,
                               ![w].wr = wcount["ai"][c] + 1]
    /\ UNCHANGED <<chat_msg, cnsl_todo_yn, chat_unique, cnsl_reg, clock, started, calls,
                   sequential>>

----------------------------------------------------------------------------
(* upsert_chat_msg_summary: chat_msg_db.py:177-218 *)

\* The reconciled transcripts a caller replaces a document with.
ReplaceContents(text) ==
    { <<>>,
      <<Entry("cnsler", text, 0)>>,
      <<Entry("cnsler", text, 0), Entry("user", text, 0)>> }

\* The summary the caller passes with the n-th request, tagged by n: every
\* other one is longer than the column's cut.
UcsSummaries(n) ==
    { <<"s", ToString(n)>> \o Pad(SUMMARY_MAX * (n % 2)) }

\* Line 193: the speaker of the last entry, lowercased, "" for an empty list.
last_speaker(content_list) ==
    IF content_list = <<>> THEN "" ELSE content_list[Len(content_list)].speaker

\* Lines 190-199: the payloads are computed before any connection is taken.
ucs_Begin(w) ==
    /\ StoreOnly
    /\ CanBegin(w)
    /\ started < MaxOps
    /\ \E c \in cnsl_reg : \E content_list \in ReplaceContents(MsgText(started + 1)) :
       \E summary \in UcsSummaries(started + 1) :
         /\ wk' = [wk EXCEPT ![w] =
                [IdleWk EXCEPT !.pc = IF last_speaker(content_list) = "user"
                                      THEN "ucs_todo" ELSE "ucs_update",
                               !.op = "upsert_chat_msg_summary",
                               !.table = "chat", !.cnsl = c,
                               !.content = content_list,
                               !.summary_val = summary,
                               !.text = <<" ", "g", " ">>]]
         /\ NoteCall(w, "chat", c, FALSE, "", <<>>)
    /\ UNCHANGED <<chat_msg, ai_msg, cnsl_todo_yn, chat_unique, cnsl_reg, clock, wcount>>

\* Lines 194-195: update_cnsl_todo_yn(cnsl_id, "N") (lines 163-174), one
\* get_conn block of its own, committed before the document is written.
ucs_Todo(w) ==
    /\ StoreOnly
    /\ wk[w].pc = "ucs_todo"
    /\ cnsl_todo_yn' = [cnsl_todo_yn EXCEPT ![wk[w].cnsl] = "N"]
    /\ wk' = [wk EXCEPT ![w].pc = "ucs_update",
                        ![w].uow = @ + 1, ![w].commits = @ + 1]
    /\ UNCHANGED <<chat_msg, ai_msg, chat_unique, cnsl_reg, clock, started, calls,
                   sequential, wcount>>

\* An UPDATE that writes the entries and leaves the summary column.
ucs_Updated_entries_only(content_list, payload, r) ==
    [r EXCEPT !.content = content_list]

\* Lines 202-206: the row the UPDATE leaves.
ucs_Updated(content_list, payload, r) ==
    [r EXCEPT !.content = content_list, !.summary = payload]

\* Lines 200-210: UPDATE the rows of the cnsl_id; when one matched, return it
\* (the block ends and commits), otherwise go on to the INSERT.
ucs_Update(w) ==
    /\ StoreOnly
    /\ wk[w].pc = "ucs_update"
    /\ LET me == wk[w]
           c == me.cnsl
           payload == SummaryPayload(me.summary_val, me.text)
           upd(r) == ucs_Updated(me.content, payload, r)
           newtbl == UpdateRows(chat_msg, c, upd)
       IN  IF RowsOf(chat_msg, c) # <<>>
           THEN /\ chat_msg' = newtbl
                /\ wcount' = [wcount EXCEPT !["chat"][c] = @ + 1]
                /\ wk' = [wk EXCEPT ![w].pc = "done",
                                    ![w].ret = FirstRow(newtbl, c),
                                    ![w].uow = @ + 1, ![w].commits = @ + 1,
                                    ![w].rd = wcount["chat"][c],
                                    ![w].wr = wcount["chat"][c] + 1]
           ELSE /\ wk' = [wk EXCEPT ![w].pc = "ucs_insert", ![w].uow = @ + 1,
                                    ![w].rd = wcount["chat"][c]]
                /\ UNCHANGED <<chat_msg, wcount>>
    /\ UNCHANGED <<ai_msg, cnsl_todo_yn, chat_unique, cnsl_reg, clock, started, calls,
                   sequential>>

\* Lines 211-218: INSERT the row, role 'user'; a unique violation raises and
\* get_conn rolls back.
ucs_Insert(w) ==
    /\ StoreOnly
    /\ wk[w].pc = "ucs_insert"
    /\ LET me == wk[w]
           c == me.cnsl
           payload == SummaryPayload(me.summary_val, me.text)
           newtbl == InsertRow(chat_msg, c, "user", me.content, payload)
       IN  IF chat_unique /\ RowsOf(chat_msg, c) # <<>>
           THEN /\ wk' = [wk EXCEPT ![w].pc = "failed"]
                /\ UNCHANGED <<chat_msg, wcount>>
           ELSE /\ chat_msg' = newtbl
                /\ wcount' = [wcount EXCEPT !["chat"][c] = @ + 1]
                /\ wk' = [wk EXCEPT ![w].pc = "done",
                                    ![w].ret = newtbl[Len(newtbl)],
                                    ![w].commits = @ + 1,
                                    ![w].wr = wcount["chat"][c] + 1]
    /\ UNCHANGED <<ai_msg, cnsl_todo_yn, chat_unique, cnsl_reg, clock, started, calls,
                   sequential>>

----------------------------------------------------------------------------
(* The message store under concurrent requests *)

Init ==
    /\ StoreInit({1})
    /\ ai_msg = [c \in CnslIds |-> NoRow]
    /\ NoRequest
    /\ NoTruncation
    /\ NoUnits
    /\ NoAudio

Next ==
    \E w \in Workers :
        \/ acc_Begin(w)
        \/ acc_Select(w)
        \/ acc_Write(w)
        \/ am_Begin(w)
        \/ am_Get(w)
        \/ am_Upsert(w)
        \/ ucs_Begin(w)
        \/ ucs_Todo(w)
        \/ ucs_Update(w)
        \/ ucs_Insert(w)

Spec == Init /\ [][Next]_vars

----------------------------------------------------------------------------
(* Claims about the message store *)

AllFree == \A w \in Workers : Free(w)

\* No operation on the document is under way.
Quiet(t, c) == \A w \in Workers : InFlight(w) => ~(wk[w].table = t /\ wk[w].cnsl = c)

InDoc(t, c, e) == \E i \in 1..Len(Entries(t, c)) : Entries(t, c)[i] = e

\* C1: N appends executed one after another on a conversation that had no
\* document leave a document of exactly N entries, the i-th carrying the
\* speaker and the text of the i-th call; for append_chat_content (table
\* chat_msg) and for append_message (table ai_msg).
C1_SequentialAppends ==
    \A t \in Tables : \A c \in CnslIds :
        (sequential[t][c] /\ Quiet(t, c)) =>
            /\ Len(Entries(t, c)) = Len(calls[t][c])
            /\ \A i \in 1..Len(calls[t][c]) :
                   /\ Entries(t, c)[i].speaker = calls[t][c][i].speaker
                   /\ Entries(t, c)[i].text = calls[t][c][i].text

\* C1's case: append(user, a) then append(cnsler, b) on chat_msg gave
\* [a, b], and a sequential append_message gave its one entry.
C1_Witness ==
    /\ AllFree
    /\ sequential["chat"][1] /\ sequential["ai"][1]
    /\ Len(calls["chat"][1]) = 2 /\ Len(calls["ai"][1]) = 1
    /\ Len(ChatEntries(1)) = 2
    /\ ChatEntries(1)[1].speaker = "user" /\ ChatEntries(1)[2].speaker = "cnsler"
    /\ Len(AiEntries(1)) = 1

\* Two finished appends on one document, each having read before the other
\* wrote, and nothing written to the document since.
RacedAppends(w1, w2) ==
    /\ w1 # w2
    /\ wk[w1].pc = "done" /\ wk[w2].pc = "done"
    /\ IsAppend(wk[w1].op) /\ IsAppend(wk[w2].op)
    /\ wk[w1].table = wk[w2].table /\ wk[w1].cnsl = wk[w2].cnsl
    /\ wk[w1].rd < wk[w2].wr /\ wk[w2].rd < wk[w1].wr
    /\ wcount[wk[w1].table][wk[w1].cnsl] = Max(wk[w1].wr, wk[w2].wr)

\* C2: when two appends on one conversation both read the document before
\* either writes, both return successfully and the stored document holds
\* exactly one of the two new entries; where the later writer rewrote the
\* document (it had read a row, or the table is ai_msg with its upsert), the
\* entry kept is the later writer's.
C2_LostUpdate ==
    \A w1 \in Workers : \A w2 \in Workers :
        RacedAppends(w1, w2) =>
            LET t == wk[w1].table
                c == wk[w1].cnsl
                later == IF wk[w1].wr > wk[w2].wr THEN w1 ELSE w2
                earlier == IF later = w1 THEN w2 ELSE w1
            IN  /\ InDoc(t, c, wk[w1].entry) # InDoc(t, c, wk[w2].entry)
                /\ (t = "ai" \/ wk[later].existing # NoRow) =>
                       /\ InDoc(t, c, wk[later].entry)
                       /\ ~InDoc(t, c, wk[earlier].entry)

\* C2's case: two appends raced on a document that existed when they read.
C2_Witness ==
    \E w1 \in Workers : \E w2 \in Workers :
        /\ RacedAppends(w1, w2)
        /\ wk[w1].existing # NoRow /\ wk[w2].existing # NoRow
        /\ wk[w1].wr < wk[w2].wr
        /\ ~InDoc(wk[w1].table, wk[w1].cnsl, wk[w1].entry)

\* C3: at most one message document (row) exists per conversation id, in
\* every reachable state.  (ai_msg holds one row per key by its unique
\* index; chat_msg is the table that can hold more.)
C3_OneDocPerConversation ==
    \A c \in CnslIds : Len(RowsOf(chat_msg, c)) <= 1

\* The step is the committed write of an append.
AppendCommits ==
    \E w \in Workers :
        /\ wk[w].pc \in {"acc_write", "am_upsert"}
        /\ wk'[w].pc = "done"

\* C4: the write of an append never shortens a conversation's stored
\* entries, and never removes an entry that was stored.
C4_EntriesMonotonic ==
    [][AppendCommits =>
          \A t \in Tables : \A c \in CnslIds :
              /\ Len(Entries(t, c)') >= Len(Entries(t, c))
              /\ \A i \in 1..Len(Entries(t, c)) :
                     \E j \in 1..Len(Entries(t, c)') :
                         Entries(t, c)'[j] = Entries(t, c)[i]]_vars

\* C5: every finished append used one unit of work: one connection
\* acquisition and one commit cover its read and its write.
C5_OneUnitOfWork ==
    \A w \in Workers :
        (wk[w].pc = "done" /\ IsAppend(wk[w].op)) =>
            (wk[w].uow = 1 /\ wk[w].commits = 1)

----------------------------------------------------------------------------
(* _truncate_korean_sentence_boundary: app.py:217-244 *)

\* Characters outside ASCII are written by their code points: U+2026 is the
\* ellipsis, U+3002 the ideographic full stop, U+B2E4 U+C694 U+B2C8 the
\* syllables da, yo, ni.

\* head.rfind(sep): the highest 0-based index where sep starts, -1 if none.
RFind(s, sep) ==
    LET hits == {i \in 1..(Len(s) - Len(sep) + 1) :
                     SubSeq(s, i, i + Len(sep) - 1) = sep}
    IN  IF hits = {} THEN -1
        ELSE (CHOOSE i \in hits : \A j \in hits : i >= j) - 1

\* Line 228: the sentence-terminal markers, in the order tried.
seps ==
    << <<"\n">>, <<".", " ">>, <<"U+2026">>, <<"!">>, <<"?">>, <<"U+3002">>,
       <<"U+B2E4", ".">>, <<"U+C694", ".">>, <<"U+B2C8", "U+B2E4", ".">>,
       <<".">> >>

\* Lines 229-233: cut starts at -1 and is raised to every larger rfind.
CutOf(head) ==
    LET idx == {RFind(head, seps[k]) : k \in 1..Len(seps)} \cup {-1}
    IN  CHOOSE i \in idx : \A j \in idx : i >= j

\* The truncation returning a text within the limit as it was passed, its
\* blanks kept.
_truncate_keep_blanks(text, limit) ==
    LET t == Strip(StrOr(text))
        head == Slice(t, limit)
        cut == CutOf(head)
        trimmed == Strip(SubSeq(head, 1, cut + 1))
        ws == RFind(head, <<" ">>)
    IN  IF Len(t) <= limit THEN StrOr(text)
        ELSE IF cut >= 0
             THEN IF trimmed # <<>> THEN trimmed ELSE Strip(head)
        ELSE IF ws > 0 THEN Strip(SubSeq(head, 1, ws))
        ELSE Strip(head)

\* The truncation without the cut at the last space: a head without a
\* marker is returned whole.
_truncate_hard_cut(text, limit) ==
    LET t == Strip(StrOr(text))
        head == Slice(t, limit)
        cut == CutOf(head)
        trimmed == Strip(SubSeq(head, 1, cut + 1))
    IN  IF Len(t) <= limit THEN t
        ELSE IF cut >= 0
             THEN IF trimmed # <<>> THEN trimmed ELSE Strip(head)
        ELSE Strip(head)

\* The truncation cutting before the marker (head[:cut]) instead of after
\* its first character.
_truncate_before_marker(text, limit) ==
    LET t == Strip(StrOr(text))
        head == Slice(t, limit)
        cut == CutOf(head)
        trimmed == Strip(SubSeq(head, 1, cut))
        ws == RFind(head, <<" ">>)
    IN  IF Len(t) <= limit THEN t
        ELSE IF cut >= 0
             THEN IF trimmed # <<>> THEN trimmed ELSE Strip(head)
        ELSE IF ws > 0 THEN Strip(SubSeq(head, 1, ws))
        ELSE Strip(head)

\* Lines 217-244.
_truncate_korean_sentence_boundary(text, limit) ==
    LET t == Strip(StrOr(text))
        head == Slice(t, limit)
        cut == CutOf(head)
        trimmed == Strip(SubSeq(head, 1, cut + 1))
        ws == RFind(head, <<" ">>)
    IN  IF Len(t) <= limit THEN t
        ELSE IF cut >= 0
             THEN IF trimmed # <<>> THEN trimmed ELSE Strip(head)
        ELSE IF ws > 0 THEN Strip(SubSeq(head, 1, ws))
        ELSE Strip(head)

----------------------------------------------------------------------------
(* The completion capability and _summarize_with_openai: app.py:157-177 *)

\* app.py:196, 205, 215: the character budget of a summary.
LIMIT == 300

\* f"(OpenAI ... : {e})", line 177.
ErrorText(e) ==
    <<"(", "O", "p", "e", "n", "A", "I", " ", "U+C694", "U+C57D", " ",
      "U+C624", "U+B958", ":", " ">> \o e \o <<")">>

\* What chat.completions.create does: it returns message.content (None or
\* a text), or it raises an exception whose str() is err.
Returned(text) == [ok |-> TRUE, text |-> text, err |-> <<>>]
Raised(err) == [ok |-> FALSE, text |-> <<>>, err |-> err]

\* Texts the model may answer a summary prompt with: within the budget, at
\* it, and over it with and without sentence marks and blanks.
SummaryReplies ==
    { NoneStr,
      <<"o", "k", ".">>,
      Pad(LIMIT),
      <<" ">> \o Pad(LIMIT) \o <<"\n">>,
      Pad(LIMIT + 10),
      Pad(LIMIT - 5) \o <<" ">> \o Pad(14),
      Pad(100) \o <<".">> \o Pad(250),
      Pad(100) \o <<"\n">> \o Pad(250) }

\* Error messages: a short one, and one longer than the budget.
ErrorMessages == { <<"t", "i", "m", "e", "o", "u", "t">>, Pad(LIMIT) }

Completions ==
    {Returned(x) : x \in SummaryReplies} \cup {Raised(e) : e \in ErrorMessages}

\* The call absorbing a failure: an empty result instead of the error text.
_summarize_with_openai_absorb(completion) ==
    IF completion.ok THEN Strip(StrOr(completion.text))
    ELSE <<>>

\* Lines 165-177: the stripped content, or the error as text.
_summarize_with_openai(completion) ==
    IF completion.ok THEN Strip(StrOr(completion.text))
    ELSE ErrorText(completion.err)

----------------------------------------------------------------------------
(* _summarize_with_openai_300: app.py:179-215 *)

\* The step after the k-th call returned `summary` that issues a further
\* call whenever the result is over the budget, the third included.
_summarize_with_openai_300_retry(k, summary) ==
    IF Len(summary) <= LIMIT
    THEN [ret |-> TRUE, value |-> summary]
    ELSE IF k < 4
    THEN [ret |-> FALSE, value |-> summary]
    ELSE [ret |-> TRUE,
          value |-> _truncate_korean_sentence_boundary(Strip(summary), LIMIT)]

\* Lines 195-215, the step after the k-th call of _summarize_with_openai
\* returned `summary`: the first and the second result are returned when
\* within the budget and otherwise become the next prompt's text; the
\* third is stripped and truncated.
_summarize_with_openai_300(k, summary) ==
    IF k < 3
    THEN IF Len(summary) <= LIMIT
         THEN [ret |-> TRUE, value |-> summary]
         ELSE [ret |-> FALSE, value |-> summary]
    ELSE [ret |-> TRUE,
          value |-> _truncate_korean_sentence_boundary(Strip(summary), LIMIT)]

----------------------------------------------------------------------------
(* summarize_audio and summarize_text_only: app.py:58-155 *)

\* Line 137: the summary of a request with nothing to analyse.
Placeholder ==
    <<"(", "U+BD84", "U+C11D", "U+D560", " ", "U+B0B4", "U+C6A9", "U+C774",
      " ", "U+C5C6", "U+C2B5", "U+B2C8", "U+B2E4", ".", ")">>

\* Lines 111-112: the labels of the two speakers' transcripts.
UserLabel == <<"u", "s", "e", "r", ":", " ">>
CnslerLabel == <<"c", "n", "s", "l", "e", "r", ":", " ">>

\* Line 131: what separates the transcript from the chat log.
ChatLogHeader ==
    <<"\n", "\n", "[", "U+CC44", "U+D305", " ", "U+B85C", "U+ADF8", "]",
      "\n">>

\* "\n".join(lines)
RECURSIVE Join(_)
Join(lines) ==
    IF lines = <<>> THEN <<>>
    ELSE IF Len(lines) = 1 THEN lines[1]
    ELSE lines[1] \o <<"\n">> \o Join(Tail(lines))

\* Lines 77-97, _transcribe: the stripped text heard in an upload, "" when
\* there is no upload, the file is empty or the transcription raises.
Heard == { <<>>, <<"h", "i">> }

\* The uploads of a request: none, `audio`, or audio_user / audio_cnsler.
Uploads == {"none", "single", "split"}

\* Lines 71-75: the chat log parsed from msg_data ([] when it is absent or
\* unparsable): no message, a message without text, a message with text.
ChatLogs ==
    { <<>>,
      << [from |-> <<"u", "s", "e", "r">>, text |-> <<>>] >>,
      << [from |-> <<"u", "s", "e", "r">>, text |-> <<"y", "o">>] >> }

\* Lines 101-119: the transcript of the uploads.
Transcript(uploads, user_text, cnsler_text, single_text) ==
    IF uploads = "split"
    THEN Strip(Join(<< Strip(UserLabel \o user_text),
                       Strip(CnslerLabel \o cnsler_text) >>))
    ELSE IF uploads = "single" THEN single_text
    ELSE <<>>

\* Chat lines that stop after the first message.
ChatLines_first_only(messages) ==
    LET kept == SelectSeq(messages, LAMBDA m : m.text # <<>>)
    IN  [i \in 1..Min(1, Len(kept)) |->
            kept[i].from \o <<":", " ">> \o kept[i].text]

\* Lines 124-129: the lines of the messages that carry a text.
ChatLines(chat_messages) ==
    LET kept == SelectSeq(chat_messages, LAMBDA m : m.text # <<>>)
    IN  [i \in 1..Len(kept) |-> kept[i].from \o <<":", " ">> \o kept[i].text]

\* A combined text with the chat log before the transcript.
CombinedText_chat_first(transcript, messages) ==
    IF messages = <<>> THEN transcript
    ELSE IF transcript # <<>>
    THEN Join(ChatLines(messages)) \o ChatLogHeader \o transcript
    ELSE Join(ChatLines(messages))

\* Lines 122-134: the text to summarize.
CombinedText(transcript, chat_messages) ==
    IF chat_messages = <<>> THEN transcript
    ELSE IF transcript # <<>>
    THEN transcript \o ChatLogHeader \o Join(ChatLines(chat_messages))
    ELSE Join(ChatLines(chat_messages))

\* The responses of the endpoints.
NoResp == [status |-> 0, summary |-> <<>>, cnsl_content |-> <<>>, detail |-> ""]
OkResp(summary) == [NoResp EXCEPT !.status = 200, !.summary = summary]
ErrResp(status, detail) == [NoResp EXCEPT !.status = status, !.detail = detail]

\* A step of a summarize request that does not touch the tables.
SumOnly == UNCHANGED <<storeVars, truncVars, poolVars, audioVars>>

\* Requests are explored one at a time: a summarize request is served on a
\* store that has served no other request yet.
Fresh == s_pc = "start" /\ started = 0

\* summarize_audio, lines 65-138 up to the call of the summarizer: without
\* an API key get_openai_client raises HTTP 500 (line 65); a text that is
\* empty or whitespace gets the placeholder.
sa_Begin ==
    /\ Fresh
    /\ \E uploads \in Uploads : \E user_text \in Heard : \E cnsler_text \in Heard :
       \E single_text \in Heard : \E chat_messages \in ChatLogs :
         LET transcript == Transcript(uploads, user_text, cnsler_text, single_text)
             combined_text == CombinedText(transcript, chat_messages)
         IN  /\ s_ep' = "summarize_audio"
             /\ s_text' = combined_text
             /\ s_cur' = combined_text
             /\ IF ~s_key
                THEN /\ s_pc' = "done"
                     /\ s_resp' = ErrResp(500, "OPENAI_API_KEY")
                ELSE IF Strip(combined_text) = <<>>
                THEN /\ s_pc' = "done"
                     /\ s_resp' = OkResp(Placeholder)
                ELSE /\ s_pc' = "attempt"
                     /\ s_resp' = s_resp
    /\ UNCHANGED <<s_key, s_calls, s_results, s_compl>>
    /\ SumOnly

\* The texts a client posts to /api/summarize-text.
BodyTexts == { <<>>, <<" ", "\n">>, <<"h", "i">>, <<" ", "h", "i", "\n">> }

\* summarize_text_only, line 154: the stripped text goes to the summarizer,
\* whatever it is.
st_Begin ==
    /\ Fresh
    /\ \E text \in BodyTexts :
         /\ s_ep' = "summarize_text_only"
         /\ s_text' = text
         /\ s_cur' = Strip(text)
         /\ s_pc' = "attempt"
    /\ UNCHANGED <<s_key, s_calls, s_results, s_compl, s_resp>>
    /\ SumOnly

\* Line 158: without an API key get_openai_client raises HTTP 500 before the
\* try of _summarize_with_openai; summarize_text_only lets it through.
s300_NoKey ==
    /\ s_pc = "attempt"
    /\ ~s_key
    /\ s_pc' = "done"
    /\ s_resp' = ErrResp(500, "OPENAI_API_KEY")
    /\ UNCHANGED <<s_ep, s_key, s_text, s_cur, s_calls, s_results, s_compl>>
    /\ SumOnly

\* One call of _summarize_with_openai by _summarize_with_openai_300 and the
\* lines that follow it; the value returned is the response's summary
\* (lines 140, 154-155).
s300_Call ==
    /\ s_pc = "attempt"
    /\ s_key
    /\ \E completion \in Completions :
         LET k == s_calls + 1
             summary == _summarize_with_openai(completion)
             step == _summarize_with_openai_300(k, summary)
         IN  /\ s_calls' = k
             /\ s_results' = Append(s_results, summary)
             /\ s_compl' = Append(s_compl, completion)
             /\ IF step.ret
                THEN /\ s_pc' = "done"
                     /\ s_resp' = OkResp(step.value)
                     /\ s_cur' = s_cur
                ELSE /\ s_pc' = "attempt"
                     /\ s_resp' = s_resp
                     /\ s_cur' = step.value
    /\ UNCHANGED <<s_ep, s_key, s_text>>
    /\ SumOnly

----------------------------------------------------------------------------
(* post_summary: ai_chat.py:116-183, and update_summary: ai_db.py:139-152 *)

\* ai_chat.py:169, 174: the cut of a reply that is taken as the summary.
PS_SUMMARY_CUT == 300

\* ai_chat.py:170, 172: the cut of the one-line gist.
GIST_CUT == 80

\* Line 153: the code fence, three grave accents (U+0060).
Fence == <<"U+0060", "U+0060", "U+0060">>

\* ai_chat.py:171: the words a gist ends with, and line 172: the ending
\* given to one that lacks them.
GistEnding ==
    <<"U+C0C1", "U+B2F4", "U+C744", " ", "U+C9C4", "U+D589", "U+D588",
      "U+C2B5", "U+B2C8", "U+B2E4", ".">>
GistSuffix ==
    <<"U+C5D0", " ", "U+B300", "U+D55C", " ", "U+C0C1", "U+B2F4", "U+C744",
      " ", "U+C9C4", "U+D589", "U+D588", "U+C2B5", "U+B2C8", "U+B2E4", ".">>

StartsWith(s, p) == Len(s) >= Len(p) /\ SubSeq(s, 1, Len(p)) = p
EndsWith(s, p) == Len(s) >= Len(p) /\ SubSeq(s, Len(s) - Len(p) + 1, Len(s)) = p

\* s.rstrip(".")
RECURSIVE RStripDots(_)
RStripDots(s) ==
    IF s = <<>> THEN s
    ELSE IF s[Len(s)] = "." THEN RStripDots(SubSeq(s, 1, Len(s) - 1))
    ELSE s

\* The JSON documents a reply may hold: objects whose "summary" and
\* "cnsl_content" are strings or absent, and a document that is no object.
JsonDoc(summary, cnsl_content) ==
    [kind |-> "dict", summary |-> summary, cnsl_content |-> cnsl_content]
JsonList == [kind |-> "list", summary |-> NoneStr, cnsl_content |-> NoneStr]
JsonError == [kind |-> "error", summary |-> NoneStr, cnsl_content |-> NoneStr]

JsonDocs ==
    {JsonDoc(x, c) :
        x \in {NoneStr, <<"o", "k", ".">>, Pad(PS_SUMMARY_CUT),
               Pad(PS_SUMMARY_CUT + 1)},
        c \in {NoneStr, <<"g", ".">>}}
    \cup {JsonDoc(<<"o", "k", ".">>, Pad(GIST_CUT + 1))}
    \cup {JsonList}

\* "key": "value", the characters of one member of an object.
JsonMember(key, value) ==
    <<"\"">> \o key \o <<"\"", ":", " ", "\"">> \o value \o <<"\"">>

\* The text of a document, as the prompt asks for it (line 145).
Render(d) ==
    LET sm == JsonMember(<<"s", "u", "m", "m", "a", "r", "y">>, d.summary)
        cm == JsonMember(<<"c", "n", "s", "l", "_", "c", "o", "n", "t", "e",
                           "n", "t">>, d.cnsl_content)
    IN  IF d.kind = "list" THEN <<"[", "]">>
        ELSE IF d.summary # NoneStr /\ d.cnsl_content # NoneStr
        THEN <<"{">> \o sm \o <<",", " ">> \o cm \o <<"}">>
        ELSE IF d.summary # NoneStr THEN <<"{">> \o sm \o <<"}">>
        ELSE IF d.cnsl_content # NoneStr THEN <<"{">> \o cm \o <<"}">>
        ELSE <<"{", "}">>

\* json.loads on the texts of the model: the document a text renders, an
\* error for every other text.
JsonLoads(json_str) ==
    IF \E d \in JsonDocs : Render(d) = json_str
    THEN CHOOSE d \in JsonDocs : Render(d) = json_str
    ELSE JsonError

\* The contents the model may answer the JSON prompt with: nothing, the
\* documents, a document in a code fence, a document cut short by
\* max_tokens, and plain text.
PsReplies ==
    { NoneStr }
    \cup {Render(d) : d \in JsonDocs}
    \cup { Fence \o <<"j", "s", "o", "n", "\n">>
               \o Render(JsonDoc(<<"o", "k", ".">>, <<"g", ".">>))
               \o <<"\n">> \o Fence \o <<"\n">>,
           Fence \o Render(JsonDoc(Pad(PS_SUMMARY_CUT + 1), NoneStr)) \o Fence,
           <<"{", "\"", "s", "u", "m", "m", "a", "r", "y", "\"", ":", " ", "\"">>
               \o Pad(PS_SUMMARY_CUT + 10),
           Pad(PS_SUMMARY_CUT + 10),
           <<"o", "k", ".">> }

PsCompletions ==
    {Returned(x) : x \in PsReplies} \cup {Raised(e) : e \in ErrorMessages}

\* Lines 151-158: the reply without its code fence. A reply that opens with
\* a fence loses its first line, or the fence alone when it has one line;
\* one that closes with a fence loses it.
ps_JsonStr(content) ==
    LET raw == Strip(StrOr(content))
        nl == {i \in 1..Len(raw) : raw[i] = "\n"}
        raw1 == IF StartsWith(raw, Fence)
                THEN IF nl # {}
                     THEN SubSeq(raw, (CHOOSE i \in nl : \A j \in nl : i <= j) + 1,
                                 Len(raw))
                     ELSE SubSeq(raw, Len(Fence) + 1, Len(raw))
                ELSE raw
        raw2 == IF EndsWith(RStrip(raw1), Fence)
                THEN RStrip(SubSeq(RStrip(raw1), 1, Len(RStrip(raw1)) - Len(Fence)))
                ELSE raw1
    IN  Strip(raw2)

\* Lines 160-174: summary and cnsl_content out of the reply. The members of
\* a parsed object are taken as they are, stripped; a reply that does not
\* parse, or is no object, is cut to be the summary and the gist.
ps_Parse(content) ==
    LET json_str == ps_JsonStr(content)
        parsed == JsonLoads(json_str)
        cut80 == RStrip(Slice(json_str, GIST_CUT))
        summary == IF parsed.kind = "dict"
                   THEN IF parsed.summary = NoneStr THEN <<>>
                        ELSE Strip(parsed.summary)
                   ELSE Slice(json_str, PS_SUMMARY_CUT)
        cnsl_content ==
            IF parsed.kind = "dict"
            THEN IF parsed.cnsl_content = NoneStr THEN <<>>
                 ELSE Strip(parsed.cnsl_content)
            ELSE IF EndsWith(cut80, GistEnding) THEN cut80
            ELSE Slice(RStrip(RStripDots(cut80)) \o GistSuffix, GIST_CUT)
    IN  [summary |-> IF summary = <<>> THEN Slice(json_str, PS_SUMMARY_CUT)
                     ELSE summary,
         cnsl_content |-> cnsl_content]

\* The characters of a speaker's name.
SpeakerChars(speaker) ==
    CASE speaker = "user" -> <<"u", "s", "e", "r">>
      [] speaker = "ai" -> <<"a", "i">>
      [] speaker = "cnsler" -> <<"c", "n", "s", "l", "e", "r">>
      [] OTHER -> <<>>

\* Lines 123-127: the conversation as text, one "speaker: text" a line.
full_text(content_list) ==
    Join([i \in 1..Len(content_list) |->
              SpeakerChars(content_list[i].speaker) \o <<":", " ">>
                  \o content_list[i].text])

\* An update_summary that creates the row when the conversation has none.
update_summary_upsert(old, summary) ==
    IF old = NoRow
    THEN [kind |-> "row", cnsl_id |-> 0, content |-> <<>>,
          summary |-> TextSummary(summary)]
    ELSE [old EXCEPT !.summary = TextSummary(summary)]

\* ai_db.py:139-152: UPDATE ai_msg SET summary = %s ... RETURNING: the row
\* after the update, none when the conversation has no row.
update_summary(old, summary) ==
    IF old = NoRow THEN NoRow ELSE [old EXCEPT !.summary = TextSummary(summary)]

\* The conversation post_summary is called for.
PsCnsl == 1

\* Lines 119-130: 404 without a row, 400 without text to summarize; the
\* client is built from the API key before the try.
ps_Begin ==
    /\ Fresh
    /\ LET row == get_bot_msg(PsCnsl)
           text == IF row = NoRow THEN <<>> ELSE full_text(row.content)
       IN  /\ s_ep' = "post_summary"
           /\ s_text' = text
           /\ s_cur' = text
           /\ IF row = NoRow
              THEN /\ s_pc' = "done"
                   /\ s_resp' = ErrResp(404, "no record")
              ELSE IF Strip(text) = <<>>
              THEN /\ s_pc' = "done"
                   /\ s_resp' = ErrResp(400, "nothing to summarize")
              ELSE IF ~s_key
              THEN /\ s_pc' = "done"
                   /\ s_resp' = ErrResp(500, "OPENAI_API_KEY")
              ELSE /\ s_pc' = "ps_call"
                   /\ s_resp' = s_resp
    /\ UNCHANGED <<s_key, s_calls, s_results, s_compl>>
    /\ SumOnly

\* Lines 131-176: the one completion call and the parsing of its reply; an
\* exception in them is answered by HTTP 500 SUMMARY_FAILED.
ps_Call ==
    /\ s_pc = "ps_call"
    /\ \E completion \in PsCompletions :
         /\ s_calls' = s_calls + 1
         /\ s_compl' = Append(s_compl, completion)
         /\ IF completion.ok
            THEN LET out == ps_Parse(completion.text)
                 IN  /\ s_pc' = "ps_save"
                     /\ s_resp' = [NoResp EXCEPT !.summary = out.summary,
                                                !.cnsl_content = out.cnsl_content]
            ELSE /\ s_pc' = "done"
                 /\ s_resp' = ErrResp(500, "SUMMARY_FAILED")
    /\ UNCHANGED <<s_ep, s_key, s_text, s_cur, s_results>>
    /\ SumOnly

\* Lines 177-183: the summary is stored, and the row answered with the gist
\* (the summary when the gist is empty).
ps_Save ==
    /\ s_pc = "ps_save"
    /\ LET row == update_summary(ai_msg[PsCnsl], s_resp.summary)
       IN  IF row = NoRow
           THEN /\ s_resp' = ErrResp(500, "summary not saved")
                /\ UNCHANGED ai_msg
           ELSE /\ ai_msg' = [ai_msg EXCEPT ![PsCnsl] = row]
                /\ s_resp' = [status |-> 200,
                              summary |-> row.summary.text,
                              cnsl_content |-> IF s_resp.cnsl_content # <<>>
                                               THEN s_resp.cnsl_content
                                               ELSE s_resp.summary,
                              detail |-> ""]
    /\ s_pc' = "done"
    /\ UNCHANGED <<s_ep, s_key, s_text, s_cur, s_calls, s_results, s_compl>>
    /\ UNCHANGED <<chat_msg, cnsl_todo_yn, chat_unique, cnsl_reg, wk, clock,
                   started, calls, sequential, wcount, truncVars, poolVars,
                   audioVars>>

----------------------------------------------------------------------------
(* The summarize requests *)

\* The rows of ai_msg a summary may be asked for: none, one without
\* entries, one with a conversation.
AiRows ==
    { NoRow,
      [kind |-> "row", cnsl_id |-> PsCnsl, content |-> <<>>,
       summary |-> NoneVal],
      [kind |-> "row", cnsl_id |-> PsCnsl,
       content |-> << Entry("user", <<"h", "i">>, 0),
                      Entry("ai", <<"y", "o">>, 0) >>,
       summary |-> NoneVal] }

InitSum ==
    /\ StoreInit({PsCnsl})
    /\ \E row \in AiRows : ai_msg = [c \in CnslIds |-> IF c = PsCnsl THEN row ELSE NoRow]
    /\ s_pc = "start"
    /\ s_ep = "none"
    /\ s_key \in BOOLEAN
    /\ s_text = <<>>
    /\ s_cur = <<>>
    /\ s_calls = 0
    /\ s_results = <<>>
    /\ s_compl = <<>>
    /\ s_resp = NoResp
    /\ NoTruncation
    /\ NoUnits
    /\ NoAudio

\* The requests that store a summary or compute one. A summary is stored by
\* upsert_chat_msg_summary while no summarize request has been made.
NextSum ==
    \/ sa_Begin
    \/ st_Begin
    \/ s300_NoKey
    \/ s300_Call
    \/ ps_Begin
    \/ ps_Call
    \/ ps_Save
    \/ \E w \in Workers :
          /\ s_pc = "start"
          /\ \/ ucs_Begin(w)
             \/ ucs_Todo(w)
             \/ ucs_Update(w)
             \/ ucs_Insert(w)

SpecSum == InitSum /\ [][NextSum]_vars

----------------------------------------------------------------------------
(* Claims about the summaries *)

\* The request was served by the endpoints over _summarize_with_openai_300.
By300 == s_ep \in {"summarize_audio", "summarize_text_only"}

Answered == s_pc = "done"

\* The summary column of a row, as text ("" when it holds none).
StoredSummary(row) ==
    IF row.summary.kind = "text" THEN StrOr(row.summary.text)
    ELSE IF row.summary.kind = "json" THEN row.summary.summary
    ELSE <<>>

\* C6: whatever the transcript and whatever the completion capability does,
\* the summary every summarization path produces and stores is at most 300
\* characters long: the one summarize_audio and summarize_text_only answer
\* with, the one post_summary answers with and stores in ai_msg, and the one
\* upsert_chat_msg_summary stores in chat_msg.
C6_SummaryWithinLimit ==
    /\ (Answered /\ s_resp.status = 200) => Len(s_resp.summary) <= LIMIT
    /\ \A c \in CnslIds :
           ai_msg[c] # NoRow => Len(StoredSummary(ai_msg[c])) <= LIMIT
    /\ \A i \in 1..Len(chat_msg) : Len(StoredSummary(chat_msg[i])) <= LIMIT

\* C7: a summarize request makes at most 3 completion calls; call k+1 is
\* made only when the result of call k is longer than 300 characters; a
\* result within 300 characters of the first or second call is the answer;
\* after the third call the truncation of its result is the answer, and no
\* request is left waiting for a fourth call.
C7_BoundedAttempts ==
    /\ s_calls <= 3
    /\ s_pc = "attempt" => s_calls < 3
    /\ s_ep = "post_summary" => s_calls <= 1
    /\ By300 =>
          /\ Len(s_results) = s_calls
          /\ \A k \in 1..(s_calls - 1) : Len(s_results[k]) > LIMIT
          /\ (Answered /\ s_calls \in {1, 2}) =>
                 /\ s_resp.summary = s_results[s_calls]
                 /\ Len(s_resp.summary) <= LIMIT
          /\ (Answered /\ s_calls = 3) =>
                 /\ s_resp.summary =
                        _truncate_korean_sentence_boundary(s_results[3], LIMIT)
                 /\ Len(s_resp.summary) <= LIMIT

\* C7: a request answered after three calls, the third result still over the
\* budget and cut at a sentence boundary.
C7_Witness ==
    /\ By300 /\ Answered
    /\ s_calls = 3
    /\ Len(s_results[3]) > LIMIT
    /\ s_resp.summary # <<>>
    /\ Len(s_resp.summary) < LIMIT

\* The k-th completion call raised.
FailedCall(k) == k \in 1..Len(s_compl) /\ ~s_compl[k].ok

C9_EmptyTranscriptPlaceholder ==
    (s_ep # "none" /\ s_key /\ Strip(s_text) = <<>> /\ s_resp.status # 404) =>
        /\ s_calls = 0
        /\ Answered => /\ s_resp.status = 200
                       /\ s_resp.summary = Placeholder

\* C25: the one-line gist that goes with a summary is at most 80 characters
\* long for every reply of the completion, parsed as JSON or not: the
\* cnsl_content post_summary answers with, and the summary_line stored in
\* chat_msg.
C25_GistWithinLimit ==
    /\ (Answered /\ s_ep = "post_summary" /\ s_resp.status = 200) =>
           Len(s_resp.cnsl_content) <= GIST_CUT
    /\ \A i \in 1..Len(chat_msg) :
           chat_msg[i].summary.kind = "json" =>
               Len(chat_msg[i].summary.summary_line) <= GIST_CUT

----------------------------------------------------------------------------
(* The truncation applied to every short text *)

\* The longest text and the largest limit tried.
MaxText == 5
MaxLimit == 4

\* Running text, blanks (a space, and a tab, which is whitespace but no
\* space), and the markers: a newline, a full stop (with a blank after it
\* the two-character marker), an exclamation mark, and the syllable da that
\* makes the marker U+B2E4 "." with a full stop.
TruncChars == {"a", " ", "\t", "\n", ".", "!", "U+B2E4"}

\* All the texts over S of length n.
TextsOfLen(S, n) == [1..n -> S]

TruncTexts == UNION {TextsOfLen(TruncChars, n) : n \in 0..MaxText}

InitTrunc ==
    /\ StoreInit({})
    /\ ai_msg = [c \in CnslIds |-> NoRow]
    /\ chat_unique
    /\ NoRequest
    /\ t_pc = "in"
    /\ t_text \in TruncTexts
    /\ t_limit \in 1..MaxLimit
    /\ t_out = <<>>
    /\ t_again = <<>>
    /\ NoUnits
    /\ NoAudio

\* The call _truncate_korean_sentence_boundary(text, limit).
Truncate ==
    /\ t_pc = "in"
    /\ t_out' = _truncate_korean_sentence_boundary(t_text, t_limit)
    /\ t_pc' = "out"
    /\ UNCHANGED <<t_text, t_limit, t_again, storeVars, sumVars, poolVars,
                   audioVars>>

\* The call _truncate_korean_sentence_boundary(result, limit) on the result
\* of the first call.
TruncateAgain ==
    /\ t_pc = "out"
    /\ t_again' = _truncate_korean_sentence_boundary(t_out, t_limit)
    /\ t_pc' = "again"
    /\ UNCHANGED <<t_text, t_limit, t_out, storeVars, sumVars, poolVars,
                   audioVars>>

NextTrunc == Truncate \/ TruncateAgain

SpecTrunc == InitTrunc /\ [][NextTrunc]_vars

----------------------------------------------------------------------------
(* Claims about the truncation *)

\* The stripped input and its first t_limit characters.
TruncInput == Strip(t_text)
TruncHead == Slice(TruncInput, t_limit)

\* The places (1-based, inclusive) where an occurrence of a marker ends in
\* the head.
MarkerEnds(head) ==
    UNION { {j + Len(seps[k]) - 1 :
                j \in {i \in 1..Len(head) :
                          /\ i + Len(seps[k]) - 1 <= Len(head)
                          /\ SubSeq(head, i, i + Len(seps[k]) - 1) = seps[k]}} :
            k \in 1..Len(seps) }

\* The end of the rightmost marker of the head.
LastMarkerEnd(head) ==
    CHOOSE e \in MarkerEnds(head) : \A f \in MarkerEnds(head) : e >= f

\* The case the claim is about: the input is longer than the limit and a
\* marker lies in its first t_limit characters.
TruncCase ==
    /\ t_pc \in {"out", "again"}
    /\ Len(TruncInput) > t_limit
    /\ MarkerEnds(TruncHead) # {}

\* C10 (as stated): in that case the returned text is the head up to and
\* including the rightmost marker, all the characters of the marker kept
\* and a newline marker not stripped.
C10_EndsAtMarkerIncluded ==
    TruncCase => t_out = SubSeq(TruncHead, 1, LastMarkerEnd(TruncHead))

\* C10 (amended): in that case the returned text is the head up to and
\* including the rightmost marker with the whitespace at its two ends
\* stripped: a marker of visible characters ends the text, of the marker
\* ". " the full stop ends it, and a newline marker is not part of it.
C10_EndsAtMarkerStripped ==
    TruncCase =>
        /\ t_out = Strip(SubSeq(TruncHead, 1, LastMarkerEnd(TruncHead)))
        /\ t_out # <<>>
        /\ t_out[Len(t_out)] \notin WS

\* C10: a text cut at a newline marker, which the result does not keep.
C10_Witness ==
    /\ TruncCase
    /\ TruncHead[LastMarkerEnd(TruncHead)] = "\n"
    /\ Len(t_out) < LastMarkerEnd(TruncHead)

\* C11 (as stated): a text of at most t_limit characters is returned as it
\* was passed, character for character, its leading and trailing
\* whitespace included; and truncating the result returns the result.
C11_WithinLimitUnchanged ==
    /\ (t_pc \in {"out", "again"} /\ Len(t_text) <= t_limit) => t_out = t_text
    /\ t_pc = "again" => t_again = t_out

\* C11 (amended): a text whose length without its leading and trailing
\* whitespace is at most t_limit is returned without that whitespace, and
\* as it was passed when it has none; and truncating the result of any
\* truncation returns that result.
C11_WithinLimitStripped ==
    /\ (t_pc \in {"out", "again"} /\ Len(TruncInput) <= t_limit) =>
           /\ t_out = TruncInput
           /\ t_text = TruncInput => t_out = t_text
    /\ t_pc = "again" => t_again = t_out

\* C11: a text within the limit that lost its blanks, truncated twice.
C11_Witness ==
    /\ t_pc = "again"
    /\ Len(t_text) <= t_limit
    /\ t_text # TruncInput
    /\ t_out = TruncInput
    /\ t_out # <<>>
    /\ t_again = t_out

\* The case of a head without a marker.
NoMarkerCase ==
    /\ t_pc \in {"out", "again"}
    /\ Len(TruncInput) > t_limit
    /\ MarkerEnds(TruncHead) = {}

\* The places of the characters of S in the head.
PlacesOf(S, head) == {i \in 1..Len(head) : head[i] \in S}

LastPlace(P) == CHOOSE i \in P : \A j \in P : i >= j

----------------------------------------------------------------------------
(* The connection pool: db_pool.py                                         *)
(*                                                                         *)
(* get_conn is followed statement by statement for the threads in Units.   *)
(* The other request threads of the process appear only as holders of      *)
(* pooled connections (p_others), which is how they act on a followed      *)
(* thread.  A connection attempt, the body of the with block, commit(),    *)
(* rollback() and putconn() may each succeed or raise.                     *)

\* maxconn of the ThreadedConnectionPool.
MAXCONN == 5

\* The number of units of work of a run.
MaxUnits == 2

Units == {1, 2}

\* The pool instances a run can construct: a unit of work constructs at
\* most one.
PoolIds == 1..MaxUnits

\* A thread outside get_conn.  `p` is the local p of get_conn: 0 for None,
\* else the pool instance _get_pool returned.  `log` is the history of the calls get_conn
\* made on the thread's behalf; a call that raised carries a "!".
IdleUnit ==
    [pc |-> "idle", p |-> 0, conn |-> "none", from_pool |-> FALSE,
     raised |-> FALSE, log |-> <<>>]

PoolInit ==
    /\ _connection_pool = 0
    /\ pools = 0
    /\ p_used = [k \in PoolIds |-> 0]
    /\ p_others = [k \in PoolIds |-> 0]
    /\ uw = [u \in Units |-> IdleUnit]
    /\ uw_started = 0

PoolOnly == UNCHANGED <<storeVars, sumVars, truncVars, audioVars>>

\* get_conn line 37 calling _get_pool, up to its line 22: the test
\* `_connection_pool is None`.  _get_pool takes no lock, so the test, the
\* construction and the return are separate steps of the thread.
uw_GetPool(u) ==
    /\ uw[u].pc \in {"idle", "done"}
    /\ uw_started < MaxUnits
    /\ uw_started' = uw_started + 1
    /\ uw' = [uw EXCEPT ![u] =
                [IdleUnit EXCEPT !.pc = IF _connection_pool = 0 THEN "create"
                                        ELSE "return"]]
    /\ UNCHANGED <<_connection_pool, pools, p_used, p_others>>
    /\ PoolOnly

\* Lines 23-30: a thread that found no pool constructs one and assigns it
\* to the global, whatever the global holds by now; when the construction
\* raises the error is printed and the global is left as it is.
uw_CreatePool(u) ==
    /\ uw[u].pc = "create"
    /\ \E created \in BOOLEAN :
          IF created
          THEN /\ pools' = pools + 1
               /\ _connection_pool' = pools + 1
          ELSE UNCHANGED <<_connection_pool, pools>>
    /\ uw' = [uw EXCEPT ![u] = [@ EXCEPT !.pc = "return"]]
    /\ UNCHANGED <<p_used, p_others, uw_started>>
    /\ PoolOnly

\* Line 31 and get_conn line 37: p is what the global holds at the return.
uw_Return(u) ==
    /\ uw[u].pc = "return"
    /\ uw' = [uw EXCEPT ![u] = [@ EXCEPT !.pc = "try", !.p = _connection_pool]]
    /\ UNCHANGED <<_connection_pool, pools, p_used, p_others, uw_started>>
    /\ PoolOnly

\* A pool that hands out one connection more than maxconn.
Exhausted_at_six(k) == p_used[k] = MAXCONN + 1

\* Pool k has no connection left to hand out: getconn raises PoolError.
Exhausted(k) == p_used[k] = MAXCONN

\* psycopg2.connect(DATABASE_URL) on behalf of unit u, after the calls
\* `before`: a direct connection, or the error of the attempt.
Connect(u, before) ==
    \E ok \in BOOLEAN :
        uw' = [uw EXCEPT ![u] =
                 IF ok
                 THEN [@ EXCEPT !.pc = "body", !.conn = "open",
                                !.log = before \o <<"connect">>]
                 ELSE [@ EXCEPT !.pc = "except",
                                !.log = before \o <<"connect!">>]]

\* A unit whose getconn raises PoolError and lets it reach the caller.
uw_Acquire_no_fallback(u) ==
    /\ uw[u].pc = "try"
    /\ IF uw[u].p # 0
       THEN IF Exhausted(uw[u].p)
            THEN /\ uw' = [uw EXCEPT ![u] =
                             [@ EXCEPT !.pc = "except",
                                       !.log = @ \o <<"PoolError">>]]
                 /\ UNCHANGED p_used
            ELSE /\ uw' = [uw EXCEPT ![u] =
                             [@ EXCEPT !.pc = "body", !.conn = "open",
                                       !.from_pool = TRUE,
                                       !.log = @ \o <<"getconn">>]]
                 /\ p_used' = [p_used EXCEPT ![uw[u].p] = @ + 1]
       ELSE /\ Connect(u, uw[u].log)
            /\ UNCHANGED p_used
    /\ UNCHANGED <<_connection_pool, pools, p_others, uw_started>>
    /\ PoolOnly

\* get_conn up to the yield: p.getconn(), on PoolError a direct connection;
\* without a pool a direct connection.  getconn itself opens a connection
\* when the pool has handed out fewer than maxconn and has none idle, and
\* that attempt may raise.
uw_Acquire(u) ==
    /\ uw[u].pc = "try"
    /\ IF uw[u].p # 0
       THEN IF Exhausted(uw[u].p)
            THEN /\ Connect(u, uw[u].log \o <<"PoolError">>)
                 /\ UNCHANGED p_used
            ELSE \E ok \in BOOLEAN :
                    IF ok
                    THEN /\ uw' = [uw EXCEPT ![u] =
                                     [@ EXCEPT !.pc = "body", !.conn = "open",
                                               !.from_pool = TRUE,
                                               !.log = @ \o <<"getconn">>]]
                         /\ p_used' = [p_used EXCEPT ![uw[u].p] = @ + 1]
                    ELSE /\ uw' = [uw EXCEPT ![u] =
                                     [@ EXCEPT !.pc = "except",
                                               !.log = @ \o <<"getconn!">>]]
                         /\ UNCHANGED p_used
       ELSE /\ Connect(u, uw[u].log)
            /\ UNCHANGED p_used
    /\ UNCHANGED <<_connection_pool, pools, p_others, uw_started>>
    /\ PoolOnly

\* The body of the with block, run at the yield.
uw_Body(u) ==
    /\ uw[u].pc = "body"
    /\ \E ok \in BOOLEAN :
          uw' = [uw EXCEPT ![u] =
                   IF ok
                   THEN [@ EXCEPT !.pc = "commit", !.log = @ \o <<"body">>]
                   ELSE [@ EXCEPT !.pc = "except", !.log = @ \o <<"body!">>]]
    /\ UNCHANGED <<_connection_pool, pools, p_used, p_others, uw_started>>
    /\ PoolOnly

\* conn.commit() after the body returned.
uw_Commit(u) ==
    /\ uw[u].pc = "commit"
    /\ \E ok \in BOOLEAN :
          uw' = [uw EXCEPT ![u] =
                   IF ok
                   THEN [@ EXCEPT !.pc = "finally", !.log = @ \o <<"commit">>]
                   ELSE [@ EXCEPT !.pc = "except", !.log = @ \o <<"commit!">>]]
    /\ UNCHANGED <<_connection_pool, pools, p_used, p_others, uw_started>>
    /\ PoolOnly

\* A unit whose except clause re-raises without rolling back.
uw_Except_no_rollback(u) ==
    /\ uw[u].pc = "except"
    /\ uw' = [uw EXCEPT ![u] = [@ EXCEPT !.pc = "finally", !.raised = TRUE]]
    /\ UNCHANGED <<_connection_pool, pools, p_used, p_others, uw_started>>
    /\ PoolOnly

\* except Exception: rollback when there is a connection, then re-raise.
\* When rollback() raises, its error is the one that reaches the caller.
uw_Except(u) ==
    /\ uw[u].pc = "except"
    /\ IF uw[u].conn = "open"
       THEN \E ok \in BOOLEAN :
               uw' = [uw EXCEPT ![u] =
                        [@ EXCEPT !.pc = "finally", !.raised = TRUE,
                                  !.log = @ \o <<IF ok THEN "rollback"
                                                       ELSE "rollback!">>]]
       ELSE uw' = [uw EXCEPT ![u] = [@ EXCEPT !.pc = "finally",
                                              !.raised = TRUE]]
    /\ UNCHANGED <<_connection_pool, pools, p_used, p_others, uw_started>>
    /\ PoolOnly

\* A release that puts every connection into the pool, direct ones too.
uw_Finally_put_all(u) ==
    /\ uw[u].pc = "finally"
    /\ IF uw[u].conn = "open"
       THEN /\ uw' = [uw EXCEPT ![u] =
                        [@ EXCEPT !.pc = "done", !.conn = "returned",
                                  !.log = @ \o <<"putconn">>]]
            /\ p_used' = IF uw[u].from_pool
                         THEN [p_used EXCEPT ![uw[u].p] = @ - 1]
                         ELSE p_used
       ELSE /\ uw' = [uw EXCEPT ![u] = [@ EXCEPT !.pc = "done"]]
            /\ UNCHANGED p_used
    /\ UNCHANGED <<_connection_pool, pools, p_others, uw_started>>
    /\ PoolOnly

\* finally: a pooled connection goes back with putconn, and is closed when
\* putconn raises; a direct one is closed.  What close() raises is
\* swallowed.  putconn raises before it frees the slot.
uw_Finally(u) ==
    /\ uw[u].pc = "finally"
    /\ IF uw[u].conn = "open"
       THEN IF uw[u].from_pool /\ uw[u].p # 0
            THEN \E ok \in BOOLEAN :
                    IF ok
                    THEN /\ uw' = [uw EXCEPT ![u] =
                                     [@ EXCEPT !.pc = "done",
                                               !.conn = "returned",
                                               !.log = @ \o <<"putconn">>]]
                         /\ p_used' = [p_used EXCEPT ![uw[u].p] = @ - 1]
                    ELSE /\ uw' = [uw EXCEPT ![u] =
                                     [@ EXCEPT !.pc = "done",
                                               !.conn = "closed",
                                               !.log = @ \o <<"putconn!",
                                                              "close">>]]
                         /\ UNCHANGED p_used
            ELSE /\ uw' = [uw EXCEPT ![u] =
                             [@ EXCEPT !.pc = "done", !.conn = "closed",
                                       !.log = @ \o <<"close">>]]
                 /\ UNCHANGED p_used
       ELSE /\ uw' = [uw EXCEPT ![u] = [@ EXCEPT !.pc = "done"]]
            /\ UNCHANGED p_used
    /\ UNCHANGED <<_connection_pool, pools, p_others, uw_started>>
    /\ PoolOnly

\* Another request thread takes a connection out of the pool the global
\* refers to.
other_Acquire ==
    /\ _connection_pool # 0
    /\ ~Exhausted(_connection_pool)
    /\ p_used' = [p_used EXCEPT ![_connection_pool] = @ + 1]
    /\ p_others' = [p_others EXCEPT ![_connection_pool] = @ + 1]
    /\ UNCHANGED <<_connection_pool, pools, uw, uw_started>>
    /\ PoolOnly

\* Another request thread gives its connection back to the pool it took it
\* from.
other_Release ==
    /\ \E k \in PoolIds :
          /\ p_others[k] > 0
          /\ p_used' = [p_used EXCEPT ![k] = @ - 1]
          /\ p_others' = [p_others EXCEPT ![k] = @ - 1]
    /\ UNCHANGED <<_connection_pool, pools, uw, uw_started>>
    /\ PoolOnly

InitPool ==
    /\ StoreInit({})
    /\ ai_msg = [c \in CnslIds |-> NoRow]
    /\ chat_unique
    /\ NoRequest
    /\ NoTruncation
    /\ PoolInit
    /\ NoAudio

NextPool ==
    \/ \E u \in Units :
          \/ uw_GetPool(u)
          \/ uw_CreatePool(u)
          \/ uw_Return(u)
          \/ uw_Acquire(u)
          \/ uw_Body(u)
          \/ uw_Commit(u)
          \/ uw_Except(u)
          \/ uw_Finally(u)
    \/ other_Acquire
    \/ other_Release

SpecPool == InitPool /\ [][NextPool]_vars

\* The threads keep running: a thread at p.getconn() takes its step.
SpecPoolLive == SpecPool /\ \A u \in Units : WF_vars(uw_Acquire(u))

----------------------------------------------------------------------------
(* Claims about the connection pool *)

Count(log, e) == Cardinality({i \in DOMAIN log : log[i] = e})

Has(log, e) == \E i \in DOMAIN log : log[i] = e

\* The unit got a connection, from the pool or directly.
Acquired(log) == Has(log, "getconn") \/ Has(log, "connect")

\* The releases of the unit's connection: back to the pool, or closed.
Releases(log) == Count(log, "putconn") + Count(log, "close")

\* The body or the commit of the unit raised.
UnitFailed(log) == Has(log, "body!") \/ Has(log, "commit!")

\* rollback() was called, and before any release.
RolledBackFirst(log) ==
    \E i \in DOMAIN log :
        /\ log[i] \in {"rollback", "rollback!"}
        /\ \A j \in DOMAIN log : log[j] \in {"putconn", "putconn!", "close"} => i < j

\* C13: every unit of work that got a connection through get_conn releases
\* it exactly once on every exit path (body and commit succeeded, the body
\* raised, the commit raised); a unit that failed had rollback() called on
\* its connection before the release; no unit ever releases twice, and a
\* thread that is outside get_conn holds no connection.
C13_ReleasedExactlyOnce ==
    \A u \in Units :
        /\ Releases(uw[u].log) <= 1
        /\ uw[u].pc = "done" =>
              /\ Releases(uw[u].log) = (IF Acquired(uw[u].log) THEN 1 ELSE 0)
              /\ uw[u].conn # "open"
              /\ UnitFailed(uw[u].log) =>
                    uw[u].raised /\ RolledBackFirst(uw[u].log)
        /\ uw[u].pc \in {"idle", "create", "return", "try"} => uw[u].conn = "none"

\* C13 witness: both threads are done, one after a commit that raised, was
\* rolled back and returned its pooled connection, the other after a body
\* that raised on a direct connection, which was rolled back and closed.
C13_Witness ==
    /\ \A u \in Units : uw[u].pc = "done"
    /\ \E u \in Units :
          uw[u].log = <<"getconn", "body", "commit!", "rollback", "putconn">>
    /\ \E u \in Units :
          uw[u].log = <<"connect", "body!", "rollback", "close">>

\* C14: when the pool is exhausted, a further acquire does not wait and
\* does not end with the pool's exhaustion error: the step after getconn
\* opens a direct connection, which is not counted in the pool, and the
\* unit proceeds to its body; the only way it fails is that the direct
\* connection attempt itself raises.  A thread at getconn always leaves it,
\* whether or not anybody returns a connection.
C14_ExhaustedGoesDirect ==
    /\ [][\A u \in Units :
            (uw[u].pc = "try" /\ uw[u].p # 0 /\ Exhausted(uw[u].p)
                 /\ uw'[u] # uw[u]) =>
               /\ p_used' = p_used
               /\ \/ /\ uw'[u].pc = "body"
                     /\ uw'[u].conn = "open"
                     /\ ~uw'[u].from_pool
                     /\ uw'[u].log = uw[u].log \o <<"PoolError", "connect">>
                  \/ /\ uw'[u].pc = "except"
                     /\ uw'[u].log = uw[u].log \o <<"PoolError", "connect!">>]_vars
    /\ \A u \in Units : (uw[u].pc = "try") ~> (uw[u].pc # "try")

\* C14 witness: the pool is exhausted by the other threads and a followed
\* thread is in its body on a direct connection it got after PoolError.
C14_Witness ==
    \E u \in Units :
          /\ uw[u].pc = "body"
          /\ uw[u].p # 0
          /\ Exhausted(uw[u].p)
          /\ p_others[uw[u].p] = MAXCONN
          /\ ~uw[u].from_pool
          /\ uw[u].log = <<"PoolError", "connect">>

\* C15: release goes by where the connection came from: a pooled one is
\* put back with putconn, and closed only when putconn raised; a direct one
\* is closed and never put into the pool; no connection is both put back
\* and closed.
C15_ReleaseByOrigin ==
    \A u \in Units :
        /\ ~(Has(uw[u].log, "putconn") /\ Has(uw[u].log, "close"))
        /\ Has(uw[u].log, "close") /\ uw[u].from_pool => Has(uw[u].log, "putconn!")
        /\ ~uw[u].from_pool =>
              ~Has(uw[u].log, "putconn") /\ ~Has(uw[u].log, "putconn!")
        /\ (uw[u].pc = "done" /\ Acquired(uw[u].log)) =>
              IF uw[u].from_pool
              THEN \/ uw[u].conn = "returned" /\ Has(uw[u].log, "putconn")
                   \/ uw[u].conn = "closed" /\ Has(uw[u].log, "putconn!")
              ELSE uw[u].conn = "closed" /\ Has(uw[u].log, "close")

\* C15 witness: one thread has put its pooled connection back, the other
\* has closed the direct connection it got while the pool was exhausted.
C15_Witness ==
    /\ \E u \in Units :
          /\ uw[u].pc = "done" /\ uw[u].from_pool /\ uw[u].conn = "returned"
    /\ \E u \in Units :
          /\ uw[u].pc = "done" /\ ~uw[u].from_pool /\ uw[u].conn = "closed"
          /\ Has(uw[u].log, "PoolError")

RECURSIVE SumOver(_, _)
SumOver(f, S) ==
    IF S = {} THEN 0
    ELSE LET k == CHOOSE x \in S : TRUE IN f[k] + SumOver(f, S \ {k})

\* The connections open for units of work in flight: the ones the followed
\* threads hold and the ones the other request threads hold.
OpenConnections ==
    Cardinality({u \in Units : uw[u].conn = "open"}) + SumOver(p_others, PoolIds)

\* The connections out of pool k that units of work in flight hold.
HeldFrom(k) ==
    Cardinality({u \in Units : /\ uw[u].conn = "open"
                               /\ uw[u].from_pool
                               /\ uw[u].p = k})
    + p_others[k]

C28_OnePoolEver ==
    /\ pools <= 1
    /\ \A u \in Units :
           (uw[u].pc \notin {"idle", "create", "return"} /\ uw[u].p # 0) =>
               uw[u].p = _connection_pool

----------------------------------------------------------------------------
(* The message store with update_summary and with storage errors           *)
(*                                                                         *)
(* Any statement of a transaction, and its commit, may raise.  get_conn    *)
(* (db_pool.py:52-55) then rolls the transaction back and re-raises: what  *)
(* the transaction wrote is undone, and no store function catches the      *)
(* error, so it reaches the caller.  A worker that raised is "failed",     *)
(* with the failing statement in err.                                      *)

\* The worker's call ended with the error raised by statement `stmt`.
Raises(w, stmt) ==
    wk' = [wk EXCEPT ![w] =
             [IdleWk EXCEPT !.pc = "failed", !.op = wk[w].op,
                            !.table = wk[w].table, !.cnsl = wk[w].cnsl,
                            !.speaker = wk[w].speaker,
                            !.content = wk[w].content,
                            !.entry = wk[w].entry,
                            !.summary_val = wk[w].summary_val,
                            !.text = wk[w].text,
                            !.err = stmt]]

\* The statements of append_chat_content's transaction that may raise at
\* the worker's position: the SELECT; the UPDATE or INSERT of the document,
\* the UPDATE of cnsl_reg for a "user" entry, the commit.
acc_Statements(me) ==
    IF me.pc = "acc_select" THEN {"select"}
    ELSE {"write", "commit"} \cup (IF me.speaker = "user" THEN {"todo"} ELSE {})

\* An append whose failed UPDATE of cnsl_reg is caught: the entry is
\* written and the document returned.
acc_Raise_swallow_todo(w) ==
    /\ StoreOnly
    /\ wk[w].pc \in {"acc_select", "acc_write"}
    /\ \E stmt \in acc_Statements(wk[w]) :
          IF stmt = "todo" /\ wk[w].existing # NoRow /\ RowsOf(chat_msg, wk[w].cnsl) # <<>>
          THEN LET me == wk[w]
                   upd(r) == acc_Updated(me.existing, me.entry, me.summary_val,
                                         me.role_val, r)
                   newtbl == UpdateRows(chat_msg, me.cnsl, upd)
               IN  /\ chat_msg' = newtbl
                   /\ wk' = [wk EXCEPT ![w].pc = "done", ![w].err = "todo",
                                       ![w].ret = FirstRow(newtbl, me.cnsl)]
          ELSE /\ Raises(w, stmt)
               /\ UNCHANGED chat_msg
    /\ UNCHANGED <<ai_msg, cnsl_todo_yn, chat_unique, cnsl_reg, clock, started,
                   calls, sequential, wcount>>

\* An append on a connection in autocommit: the UPDATE of the document
\* stays when a later statement raises.
acc_Raise_autocommit(w) ==
    /\ StoreOnly
    /\ wk[w].pc \in {"acc_select", "acc_write"}
    /\ \E stmt \in acc_Statements(wk[w]) :
          /\ Raises(w, stmt)
          /\ IF stmt \in {"todo", "commit"} /\ wk[w].existing # NoRow
             THEN LET me == wk[w]
                      upd(r) == acc_Updated(me.existing, me.entry,
                                            me.summary_val, me.role_val, r)
                  IN  chat_msg' = UpdateRows(chat_msg, me.cnsl, upd)
             ELSE UNCHANGED chat_msg
    /\ UNCHANGED <<ai_msg, cnsl_todo_yn, chat_unique, cnsl_reg, clock, started,
                   calls, sequential, wcount>>

\* chat_msg_db.py:86-146 under db_pool.py:52-55: a statement of the append's
\* one transaction raises; nothing of it is committed.
acc_Raise(w) ==
    /\ StoreOnly
    /\ wk[w].pc \in {"acc_select", "acc_write"}
    /\ \E stmt \in acc_Statements(wk[w]) : Raises(w, stmt)
    /\ UNCHANGED <<chat_msg, ai_msg, cnsl_todo_yn, chat_unique, cnsl_reg, clock,
                   started, calls, sequential, wcount>>

\* ai_db.py:66-87: get_bot_msg's or upsert_bot_msg's transaction raises.
am_Raise(w) ==
    /\ StoreOnly
    /\ wk[w].pc \in {"am_get", "am_upsert"}
    /\ Raises(w, IF wk[w].pc = "am_get" THEN "select" ELSE "write")
    /\ UNCHANGED <<chat_msg, ai_msg, cnsl_todo_yn, chat_unique, cnsl_reg, clock,
                   started, calls, sequential, wcount>>

\* chat_msg_db.py:194-218: update_cnsl_todo_yn raises (line 195, nothing
\* catches it, the document is not yet written), or a statement of the
\* document's transaction raises (the flag, committed before, stays).
ucs_Raise(w) ==
    /\ StoreOnly
    /\ wk[w].pc \in {"ucs_todo", "ucs_update", "ucs_insert"}
    /\ Raises(w, IF wk[w].pc = "ucs_todo" THEN "todo" ELSE "write")
    /\ UNCHANGED <<chat_msg, ai_msg, cnsl_todo_yn, chat_unique, cnsl_reg, clock,
                   started, calls, sequential, wcount>>

\* The call update_summary(cnsl_id, member_id, summary), ai_db.py:139-152,
\* one transaction: for any cnsl_id, with or without a document.
us_Call(w) ==
    /\ StoreOnly
    /\ CanBegin(w)
    /\ started < MaxOps
    /\ \E c \in CnslIds :
         LET summary == <<"u", ToString(started + 1)>>
             row == update_summary(ai_msg[c], summary)
         IN  /\ ai_msg' = [ai_msg EXCEPT ![c] = row]
             /\ wcount' = [wcount EXCEPT !["ai"][c] =
                               IF row = NoRow THEN @ ELSE @ + 1]
             /\ wk' = [wk EXCEPT ![w] =
                    [IdleWk EXCEPT !.pc = "done", !.op = "update_summary",
                                   !.table = "ai", !.cnsl = c,
                                   !.summary_val = summary,
                                   !.existing = ai_msg[c],
                                   !.ret = IF row = NoRow THEN NoneVal ELSE row,
                                   !.uow = 1, !.commits = 1]]
             /\ NoteCall(w, "ai", c, FALSE, "", <<>>)
    /\ UNCHANGED <<chat_msg, cnsl_todo_yn, chat_unique, cnsl_reg, clock>>

\* The number of calls of a run with storage errors.
MaxCalls == 2

NextStore ==
    \E w \in Workers :
        \/ started < MaxCalls /\ acc_Begin(w)
        \/ acc_Select(w)
        \/ acc_Write(w)
        \/ acc_Raise(w)
        \/ started < MaxCalls /\ am_Begin(w)
        \/ am_Get(w)
        \/ am_Upsert(w)
        \/ am_Raise(w)
        \/ started < MaxCalls /\ ucs_Begin(w)
        \/ ucs_Todo(w)
        \/ ucs_Update(w)
        \/ ucs_Insert(w)
        \/ ucs_Raise(w)
        \/ started < MaxCalls /\ us_Call(w)

SpecStore == Init /\ [][NextStore]_vars

----------------------------------------------------------------------------
(* Claims about the store's other operations and its failures *)

\* Worker w takes the step.
Steps(w) == wk'[w] # wk[w]

\* C16: update_summary on an existing document changes its summary and
\* nothing else: the entries of the document, the other documents and the
\* other tables stay, and the updated document is returned; when the
\* conversation has no document, the call returns None without raising and
\* no document is created.
C16_SummaryOnly ==
    [][\A w \in Workers :
         (Steps(w) /\ wk'[w].op = "update_summary") =>
            LET c == wk'[w].cnsl IN
            /\ wk'[w].pc = "done"
            /\ chat_msg' = chat_msg
            /\ cnsl_todo_yn' = cnsl_todo_yn
            /\ \A d \in CnslIds \ {c} : ai_msg'[d] = ai_msg[d]
            /\ IF ai_msg[c] = NoRow
               THEN ai_msg'[c] = NoRow /\ wk'[w].ret = NoneVal
               ELSE /\ ai_msg'[c].content = ai_msg[c].content
                    /\ ai_msg'[c].summary = TextSummary(wk'[w].summary_val)
                    /\ wk'[w].ret = ai_msg'[c]]_vars

\* C16 witness: update_summary was called for a conversation without a
\* document and returned None, with no document there afterwards, while
\* another conversation has its document and its entries.
C16_Witness ==
    \E w \in Workers : \E d \in CnslIds :
        /\ wk[w].pc = "done" /\ wk[w].op = "update_summary"
        /\ wk[w].existing = NoRow /\ wk[w].ret = NoneVal
        /\ ai_msg[wk[w].cnsl] = NoRow
        /\ d # wk[w].cnsl /\ ai_msg[d] # NoRow /\ ai_msg[d].content # <<>>

UserAppended(w, ops) ==
    wk[w].pc = "done" /\ wk[w].op \in ops /\ wk[w].speaker = "user"

\* C18 as stated: after every successful append with speaker "user",
\* through append_chat_content or append_message, cnsl_todo_yn of the
\* conversation is 'N'.
C18_EveryUserAppendClearsFlag ==
    \A w \in Workers :
        UserAppended(w, {"append_chat_content", "append_message"}) =>
            cnsl_todo_yn[wk[w].cnsl] = "N"

\* C18: after every successful append_chat_content with speaker "user",
\* cnsl_todo_yn of the conversation is 'N' in the committed state; an
\* append_message step never changes cnsl_todo_yn.
C18_ChatAppendClearsFlag ==
    /\ [](\A w \in Workers :
            UserAppended(w, {"append_chat_content"}) =>
                cnsl_todo_yn[wk[w].cnsl] = "N")
    /\ [][\A w \in Workers :
            (Steps(w) /\ wk[w].pc \in {"am_get", "am_upsert"}) =>
                cnsl_todo_yn' = cnsl_todo_yn]_vars

\* C18 witness: a "user" append_chat_content has returned and the flag of
\* its conversation is 'N', while a "user" append_message has returned for
\* the other table.
C18_Witness ==
    /\ \E w \in Workers :
          /\ UserAppended(w, {"append_chat_content"})
          /\ cnsl_todo_yn[wk[w].cnsl] = "N"
    /\ \E w \in Workers : UserAppended(w, {"append_message"})

\* C19 as stated: when the update of the pending-reply flag has failed
\* during an append or a replace, the operation has still persisted its
\* entry or document and returned the updated document.
C19_FlagFailureNonFatal ==
    \A w \in Workers :
        wk[w].err = "todo" =>
            /\ wk[w].pc = "done"
            /\ wk[w].ret # NoneVal
            /\ FirstRow(chat_msg, wk[w].cnsl) # NoRow

\* C19: a storage error of the pending-reply flag's update is fatal to the
\* operation: the step in which it is raised ends the append or the replace
\* with the error, no document is returned, chat_msg and cnsl_todo_yn stay
\* as they were, and the operation had written nothing before.
C19_FlagFailureAborts ==
    [][\A w \in Workers :
         (Steps(w) /\ wk'[w].err = "todo") =>
            /\ wk[w].op \in {"append_chat_content", "upsert_chat_msg_summary"}
            /\ wk'[w].pc = "failed"
            /\ wk'[w].ret = NoneVal
            /\ wk[w].wr = 0
            /\ chat_msg' = chat_msg
            /\ cnsl_todo_yn' = cnsl_todo_yn]_vars

\* C19 witness: an append by "user" to an existing document has failed at
\* the flag's update; the document is without the entry and the flag is
\* still 'Y'.
C19_Witness ==
    \E w \in Workers :
        /\ wk[w].pc = "failed" /\ wk[w].err = "todo"
        /\ wk[w].op = "append_chat_content"
        /\ FirstRow(chat_msg, wk[w].cnsl) # NoRow
        /\ \A i \in DOMAIN FirstRow(chat_msg, wk[w].cnsl).content :
              FirstRow(chat_msg, wk[w].cnsl).content[i] # wk[w].entry
        /\ cnsl_todo_yn[wk[w].cnsl] = "Y"

\* C20: a storage error inside a unit of work ends the operation with the
\* error, not with a value, and the step in which the unit fails leaves the
\* tables and the flag as they were; an append has committed no write
\* before it fails, so after a failed append neither the entries nor the
\* flag differ from what they would be without it.
C20_FailurePropagates ==
    [][\A w \in Workers :
         (Steps(w) /\ wk'[w].pc = "failed") =>
            /\ wk'[w].ret = NoneVal
            /\ chat_msg' = chat_msg
            /\ ai_msg' = ai_msg
            /\ cnsl_todo_yn' = cnsl_todo_yn
            /\ IsAppend(wk[w].op) => wk[w].wr = 0]_vars

\* C20 witness: an append to an existing document has failed at its commit;
\* the document is without the entry.
C20_Witness ==
    \E w \in Workers :
        /\ wk[w].pc = "failed" /\ wk[w].err = "commit"
        /\ wk[w].op = "append_chat_content"
        /\ FirstRow(chat_msg, wk[w].cnsl) # NoRow
        /\ \A i \in DOMAIN FirstRow(chat_msg, wk[w].cnsl).content :
              FirstRow(chat_msg, wk[w].cnsl).content[i] # wk[w].entry

----------------------------------------------------------------------------
(* The store serving two conversations *)

InitTwo ==
    /\ StoreInit(CnslIds)
    /\ ai_msg = [c \in CnslIds |-> NoRow]
    /\ NoRequest
    /\ NoTruncation
    /\ NoUnits
    /\ NoAudio

NextTwo ==
    \E w \in Workers :
        \/ started < MaxCalls /\ acc_Begin(w)
        \/ acc_Select(w)
        \/ acc_Write(w)
        \/ started < MaxCalls /\ am_Begin(w)
        \/ am_Get(w)
        \/ am_Upsert(w)
        \/ started < MaxCalls /\ ucs_Begin(w)
        \/ ucs_Todo(w)
        \/ ucs_Update(w)
        \/ ucs_Insert(w)
        \/ started < MaxCalls /\ us_Call(w)

SpecTwo == InitTwo /\ [][NextTwo]_vars

\* What is stored for conversation d: its rows of chat_msg, its row of
\* ai_msg, its pending-reply flag.
StoredFor(tbl, ai, todo, d) ==
    [chat |-> RowsOf(tbl, d), ai |-> ai[d], todo |-> todo[d]]

\* C21: a step of an operation on conversation c (the reads of get and
\* append, the writes of append, replace and update_summary, and the flag
\* updates) leaves what is stored for every other conversation d unchanged:
\* its documents with entries and summary, and its pending-reply flag.
C21_OtherConversationsUntouched ==
    [][\A w \in Workers :
         Steps(w) =>
            \A d \in CnslIds \ {wk'[w].cnsl} :
                StoredFor(chat_msg', ai_msg', cnsl_todo_yn', d)
                    = StoredFor(chat_msg, ai_msg, cnsl_todo_yn, d)]_vars

\* C21 witness: conversation 2 has a document whose flag is still 'Y', and
\* a "user" entry has been appended to conversation 1, whose flag is 'N'.
C21_Witness ==
    /\ FirstRow(chat_msg, 2) # NoRow
    /\ cnsl_todo_yn[2] = "Y"
    /\ cnsl_todo_yn[1] = "N"
    /\ \E w \in Workers :
          /\ UserAppended(w, {"append_chat_content"})
          /\ wk[w].cnsl = 1
          /\ FirstRow(chat_msg, 1) = wk[w].ret

----------------------------------------------------------------------------
(* Appends to a conversation that has a summary *)

\* ai_msg rows a run may start from: none, or conversation 1 with an entry
\* and the summary a post_summary stored.
SummarisedAi ==
    [c \in CnslIds |->
        IF c = 1
        THEN [kind |-> "row", cnsl_id |-> 1,
              content |-> <<Entry("user", <<"h", "i">>, 0)>>,
              summary |-> TextSummary(<<"s", "0">>)]
        ELSE NoRow]

InitAppend ==
    /\ StoreInit({1})
    /\ ai_msg \in {[c \in CnslIds |-> NoRow], SummarisedAi}
    /\ NoRequest
    /\ NoTruncation
    /\ NoUnits
    /\ NoAudio

SpecAppend == InitAppend /\ [][NextTwo]_vars

\* C27: an append that supplies no summary leaves the stored summary as it
\* is.  The write of append_chat_content without summary_val keeps the
\* summary of every row of chat_msg, and the row it creates has none; the
\* upsert of append_message keeps the summary of the row of ai_msg, and
\* the row it creates has none.
C27_AppendKeepsSummary ==
    [][\A w \in Workers :
         /\ (wk[w].pc = "acc_write" /\ ~Truthy(wk[w].summary_val)
                 /\ Steps(w)) =>
                /\ Len(chat_msg') >= Len(chat_msg)
                /\ \A i \in 1..Len(chat_msg') :
                       chat_msg'[i].summary =
                           IF i <= Len(chat_msg) THEN chat_msg[i].summary
                           ELSE NoneVal
         /\ (wk[w].pc = "am_upsert" /\ Steps(w)) =>
                /\ ai_msg'[wk[w].cnsl] # NoRow
                /\ ai_msg'[wk[w].cnsl].summary =
                       IF ai_msg[wk[w].cnsl] = NoRow THEN NoneVal
                       ELSE ai_msg[wk[w].cnsl].summary]_vars

\* C27 witness: an append_message has updated the row of ai_msg that held
\* a summary, which is stored still, and an append_chat_content without a
\* summary has created a row, which has none.
C27_Witness ==
    /\ \E w \in Workers :
          /\ wk[w].pc = "done" /\ wk[w].op = "append_message"
          /\ wk[w].existing # NoRow
          /\ wk[w].existing.summary # NoneVal
          /\ ai_msg[wk[w].cnsl].summary = wk[w].existing.summary
          /\ Len(ai_msg[wk[w].cnsl].content) > Len(wk[w].existing.content)
    /\ \E w \in Workers :
          /\ wk[w].pc = "done" /\ wk[w].op = "append_chat_content"
          /\ ~Truthy(wk[w].summary_val)
          /\ wk[w].existing = NoRow
          /\ FirstRow(chat_msg, wk[w].cnsl) # NoRow
          /\ FirstRow(chat_msg, wk[w].cnsl).summary = NoneVal

----------------------------------------------------------------------------
(* summarize_audio line by line: app.py:58-150                             *)
(*                                                                         *)
(* The request's form fields are given with what the capabilities do with  *)
(* them: what reading and transcribing an upload yields, what msg_data     *)
(* parses to.  The summarizer is called with completions that answer       *)
(* within the budget or raise; the longer answers are the subject of the   *)
(* summarize requests above.                                               *)

\* Line 106: the text listed for a speaker nothing was heard of.
NoSpeech ==
    <<"(", "U+C74C", "U+C131", " ", "U+C778", "U+C2DD", " ", "U+ACB0",
      "U+ACFC", " ", "U+C5C6", "U+C74C", ")">>

\* An exception leaving a function where a string is expected.
RaisedStr == <<"<raised>">>

\* An upload field: absent; present without a filename; an empty file; a
\* file whose read raises; one whose transcription raises; one transcribed
\* to None, to blanks, to a text.
Upload(kind, text) == [kind |-> kind, text |-> text]

AudioUploads ==
    { Upload("absent", <<>>), Upload("nofile", <<>>), Upload("empty", <<>>),
      Upload("read_raises", <<>>), Upload("stt_raises", <<>>),
      Upload("heard", NoneStr), Upload("heard", <<" ", "\n">>),
      Upload("heard", <<" ", "h", "i">>) }

\* The transcription of the upload did not give a text.
NothingHeard(upload) ==
    upload.kind # "heard" \/ upload.text = NoneStr
        \/ \A i \in DOMAIN upload.text : upload.text[i] \in WS

\* A _transcribe without its try: the exception leaves it.
_transcribe_unguarded(upload) ==
    IF upload.kind \in {"absent", "nofile", "empty"} THEN <<>>
    ELSE IF upload.kind \in {"read_raises", "stt_raises"} THEN RaisedStr
    ELSE Strip(StrOr(upload.text))

\* Lines 77-97: "" without an upload or a filename, for an empty file, and
\* when the read or the transcription raises; else (tr.text or "").strip().
_transcribe(upload) ==
    IF upload.kind \in {"absent", "nofile", "empty"} THEN <<>>
    ELSE IF upload.kind \in {"read_raises", "stt_raises"} THEN <<>>
    ELSE Strip(StrOr(upload.text))

\* A chat message of msg_data.
ChatMsg(from, text, ts) == [from |-> from, text |-> text, timestamp |-> ts]

\* The chat batches a client sends: two messages, and three of which the
\* second has no text.
ChatBatch ==
    << ChatMsg(<<"u", "s", "e", "r">>, <<"c", "1">>, 100),
       ChatMsg(<<"c", "n", "s", "l", "e", "r">>, <<"c", "2">>, 300) >>

ChatBatchBlank ==
    << ChatMsg(<<"u", "s", "e", "r">>, <<"c", "1">>, 100),
       ChatMsg(<<"c", "n", "s", "l", "e", "r">>, <<>>, 200),
       ChatMsg(<<"u", "s", "e", "r">>, <<"c", "2">>, 300) >>

\* The form field msg_data: absent; a JSON list of the batch `entries`; a
\* text that is no JSON (the batch cut short); a JSON list of numbers.
MsgData(kind, entries) == [kind |-> kind, entries |-> entries]

MsgDatas ==
    { MsgData("absent", <<>>), MsgData("list", <<>>),
      MsgData("list", ChatBatch), MsgData("list", ChatBatchBlank),
      MsgData("unparsable", ChatBatch), MsgData("scalars", <<>>) }

\* Lines 71-75: json.loads(msg_data), [] when it raises or msg_data is
\* absent; a list of numbers parses (to a list the model does not keep).
chat_messages(msg_data) ==
    IF msg_data.kind = "list" THEN msg_data.entries ELSE <<>>

\* Lines 104-119: the stt items of the response.
stt_items(split, audio, user_text, cnsler_text, transcript) ==
    IF split
    THEN << [speaker |-> "user", text |-> IF user_text # <<>> THEN user_text ELSE NoSpeech],
            [speaker |-> "cnsler",
             text |-> IF cnsler_text # <<>> THEN cnsler_text ELSE NoSpeech] >>
    ELSE IF audio.kind # "absent"
    THEN << [speaker |-> "user", text |-> IF transcript # <<>> THEN transcript ELSE NoSpeech] >>
    ELSE <<>>

NoOut ==
    [chat_messages |-> <<>>, stt_items |-> <<>>, transcript |-> <<>>,
     combined_text |-> <<>>, summary |-> <<>>, status |-> 0]

AudioOnly == UNCHANGED <<storeVars, sumVars, truncVars, poolVars>>

\* Lines 65-134: the client, the chat log, the transcriptions, the combined
\* text.  Without an API key get_openai_client raises HTTP 500 (line 65);
\* m.get on a number raises (line 125) and the request ends with 500.
sa_Combine ==
    /\ a_pc = "in"
    /\ LET user_text == _transcribe(a_in.audio_user)
           cnsler_text == _transcribe(a_in.audio_cnsler)
           single_text == _transcribe(a_in.audio)
           split == a_in.audio_user.kind # "absent"
                       \/ a_in.audio_cnsler.kind # "absent"
           uploads == IF split THEN "split"
                      ELSE IF a_in.audio.kind # "absent" THEN "single"
                      ELSE "none"
           escaped == IF split THEN RaisedStr \in {user_text, cnsler_text}
                      ELSE single_text = RaisedStr
           transcript == Transcript(uploads, user_text, cnsler_text, single_text)
           msgs == chat_messages(a_in.msg_data)
       IN  IF ~a_in.key \/ escaped \/ a_in.msg_data.kind = "scalars"
           THEN /\ a_out' = [NoOut EXCEPT !.status = 500]
                /\ a_pc' = "done"
           ELSE /\ a_out' = [NoOut EXCEPT
                               !.chat_messages = msgs,
                               !.stt_items = stt_items(split, a_in.audio,
                                                 user_text, cnsler_text, transcript),
                               !.transcript = transcript,
                               !.combined_text = CombinedText(transcript, msgs)]
                /\ a_pc' = "summarize"
    /\ UNCHANGED a_in
    /\ AudioOnly

\* What the completion capability does with the summary prompt here.
ShortCompletions ==
    { Returned(<<"o", "k", ".">>), Returned(NoneStr),
      Raised(<<"t", "i", "m", "e", "o", "u", "t">>) }

\* Lines 136-150: the placeholder for a blank text, else the summarizer's
\* result; the response.
sa_Respond ==
    /\ a_pc = "summarize"
    /\ IF Strip(a_out.combined_text) = <<>>
       THEN a_out' = [a_out EXCEPT !.summary = Placeholder, !.status = 200]
       ELSE \E completion \in ShortCompletions :
               LET first == _summarize_with_openai_300(1,
                                _summarize_with_openai(completion))
               IN  /\ first.ret
                   /\ a_out' = [a_out EXCEPT !.summary = first.value,
                                             !.status = 200]
    /\ a_pc' = "done"
    /\ UNCHANGED a_in
    /\ AudioOnly

InitAudio ==
    /\ StoreInit({})
    /\ ai_msg = [c \in CnslIds |-> NoRow]
    /\ chat_unique
    /\ NoRequest
    /\ NoTruncation
    /\ NoUnits
    /\ a_pc = "in"
    /\ a_in \in [key : BOOLEAN, audio : AudioUploads, audio_user : AudioUploads,
                 audio_cnsler : AudioUploads, msg_data : MsgDatas]
    /\ a_out = NoOut

NextAudio == sa_Combine \/ sa_Respond

SpecAudio == InitAudio /\ [][NextAudio]_vars

----------------------------------------------------------------------------
(* Claims about summarize_audio *)

\* The request has separate uploads for the two speakers.
SplitUploads ==
    a_in.audio_user.kind # "absent" \/ a_in.audio_cnsler.kind # "absent"

\* The text the response lists for an upload: what was heard, stripped, or
\* the no-speech text.
Listed(upload) ==
    IF NothingHeard(upload) THEN NoSpeech ELSE Strip(upload.text)

\* C22: whatever the read or the transcription of each upload does (raise,
\* give nothing, give blanks), summarize_audio ends with a response, not an
\* error: status 200, the stt list naming the no-speech text
\* for every speaker nothing was heard of and the text heard for the
\* others.  The only errors are those of a missing API key and of a
\* msg_data whose items are no objects.
C22_TranscriptionNeverAborts ==
    /\ a_out.status \in {0, 200, 500}
    /\ a_out.status = 500 => ~a_in.key \/ a_in.msg_data.kind = "scalars"
    /\ (a_pc = "done" /\ a_in.key /\ a_in.msg_data.kind # "scalars") =>
          /\ a_out.status = 200
          /\ IF SplitUploads
             THEN a_out.stt_items =
                     << [speaker |-> "user", text |-> Listed(a_in.audio_user)],
                        [speaker |-> "cnsler", text |-> Listed(a_in.audio_cnsler)] >>
             ELSE IF a_in.audio.kind # "absent"
             THEN a_out.stt_items =
                     << [speaker |-> "user", text |-> Listed(a_in.audio)] >>
             ELSE a_out.stt_items = <<>>

\* C22 witness: the transcription of the user's upload raised, the
\* counselor's was heard; the response lists the no-speech text for the
\* user and carries the summarizer's answer.
C22_Witness ==
    /\ a_pc = "done"
    /\ a_in.audio_user.kind = "stt_raises"
    /\ a_in.audio_cnsler = Upload("heard", <<" ", "h", "i">>)
    /\ a_out.status = 200
    /\ a_out.stt_items[1].text = NoSpeech
    /\ a_out.stt_items[2].text = <<"h", "i">>
    /\ a_out.summary = <<"o", "k", ".">>

\* text.split("\n")
RECURSIVE SplitLines(_, _)
SplitLines(text, line) ==
    IF text = <<>> THEN <<line>>
    ELSE IF Head(text) = "\n" THEN <<line>> \o SplitLines(Tail(text), <<>>)
    ELSE SplitLines(Tail(text), Append(line, Head(text)))

Lines(text) == SplitLines(text, <<>>)

\* The place of a line in the combined text, 0 when it is not there.
LineIndex(line) ==
    LET L == Lines(a_out.combined_text)
    IN  IF \E i \in DOMAIN L : L[i] = line
        THEN CHOOSE i \in DOMAIN L : L[i] = line /\ \A j \in 1..(i - 1) : L[j] # line
        ELSE 0

\* The entries given to the request, typed before transcribed, each with
\* its timestamp and the line that stands for it in the combined text.  A
\* chat message carries its timestamp; what the user said is taken to be of
\* time 150 and what the counselor said of time 250.
ChatEntryLine(m) == m.from \o <<":", " ">> \o m.text

TypedEntries ==
    LET msgs == a_in.msg_data.entries
    IN  [i \in DOMAIN msgs |->
            [timestamp |-> msgs[i].timestamp, text |-> msgs[i].text,
             line |-> ChatEntryLine(msgs[i])]]

TranscribedEntries ==
    IF ~SplitUploads
    THEN IF NothingHeard(a_in.audio) THEN <<>>
         ELSE << [timestamp |-> 150, text |-> Strip(a_in.audio.text),
                  line |-> Strip(a_in.audio.text)] >>
    ELSE (IF NothingHeard(a_in.audio_user) THEN <<>>
          ELSE << [timestamp |-> 150, text |-> Strip(a_in.audio_user.text),
                   line |-> UserLabel \o Strip(a_in.audio_user.text)] >>)
         \o
         (IF NothingHeard(a_in.audio_cnsler) THEN <<>>
          ELSE << [timestamp |-> 250, text |-> Strip(a_in.audio_cnsler.text),
                   line |-> CnslerLabel \o Strip(a_in.audio_cnsler.text)] >>)

InputEntries == TypedEntries \o TranscribedEntries

Answered200 == a_pc = "done" /\ a_out.status = 200

EntryLines ==
    LET L == Lines(a_out.combined_text)
    IN  SelectSeq(L, LAMBDA l :
            /\ l # <<>>
            /\ <<"\n", "\n">> \o l \o <<"\n">> # ChatLogHeader
            /\ l \o <<" ">> \notin {UserLabel, CnslerLabel})

\* C24 as stated: every chat entry and every transcribed entry given to
\* the request is in the merged transcript, which has as many entries as
\* were given, whatever their text and also when msg_data does not parse.
C24_NoEntryDropped ==
    Answered200 =>
        /\ \A i \in DOMAIN InputEntries : LineIndex(InputEntries[i].line) > 0
        /\ Len(EntryLines) = Len(InputEntries)

\* C24: every transcription that was heard and every chat message with a
\* text of a msg_data that parses has its line in the merged transcript,
\* and these are all its entries; a chat message without text is left out,
\* and a msg_data that does not parse counts as no chat messages, the
\* request still answering 200.
C24_EntriesWithTextKept ==
    Answered200 =>
        LET parsed == a_in.msg_data.kind = "list"
            typedKept == IF parsed
                         THEN SelectSeq(TypedEntries, LAMBDA e : e.text # <<>>)
                         ELSE <<>>
        IN  /\ \A i \in DOMAIN TranscribedEntries :
                  LineIndex(TranscribedEntries[i].line) > 0
            /\ \A i \in DOMAIN TypedEntries :
                  LineIndex(TypedEntries[i].line) > 0
                      <=> (parsed /\ TypedEntries[i].text # <<>>)
            /\ Len(EntryLines) = Len(typedKept) + Len(TranscribedEntries)
            /\ ~parsed => a_out.chat_messages = <<>>

\* C24 witness: three chat messages, the second without text, and both
\* transcriptions were given; the merged transcript has four entries.
C24_Witness ==
    /\ Answered200
    /\ a_in.msg_data = MsgData("list", ChatBatchBlank)
    /\ Len(TranscribedEntries) = 2
    /\ Len(InputEntries) = 5
    /\ Len(EntryLines) = 4
    /\ LineIndex(TypedEntries[2].line) = 0

====
